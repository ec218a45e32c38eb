--------------------------- MODULE ShellPoolProofs ---------------------------
(***************************************************************************)
(* What holds of the completion pool for any number of workers, any        *)
(* requested commands and whatever they discover; and that the pool inside *)
(* the shell is that pool, so that all of it holds there, with what holds  *)
(* of the dispatch of signals.                                             *)
(***************************************************************************)
EXTENDS ShellPool, SignalDispatchProofs, FiniteSetTheorems, SequenceTheorems, TLAPS

-----------------------------------------------------------------------------
(* Types *)

\* What a worker has found is finite, so that what it adds to the queue is; and only
\* the commands that were asked for are roots.
Known == {i \in Item : i.root => i.target \in Roots}
Typed ==
    /\ PoolTypeOK
    /\ \A w \in Workers : IsFiniteSet(result[w].found)
    /\ queue \in Seq(Known)
    /\ \A w \in BusyWorkers : item[w] \in Known

\* Every way a program counter moves.
Labels == Busy \cup {"poll", "quit", "take", "falling", "waiting", "announce", "done"}

LEMMA GotoTyped ==
    ASSUME pc \in [Workers -> Labels], NEW w \in Workers, NEW label \in Labels
    PROVE  /\ [pc EXCEPT ![w] = label] \in [Workers -> Labels]
           /\ [Notified EXCEPT ![w] = label] \in [Workers -> Labels]
BY DEF Notified, Labels

LEMMA AdditionsAreItems ==
    ASSUME Typed, NEW w \in Workers, NEW more \in Additions(w)
    PROVE  more \in Seq(Known)
<1> DEFINE keys == {Key(t) : t \in New(w)}
           keyOf == [t \in New(w) |-> Key(t)]
<1>1. New(w) \in SUBSET result[w].found /\ result[w].found \subseteq Targets
  BY DEF New, Typed, PoolTypeOK
<1>2. IsFiniteSet(New(w))
  BY <1>1, FS_Subset DEF Typed
<1>3. keyOf \in Surjection(New(w), keys)
  BY DEF Surjection
<1>4. IsFiniteSet(keys)
  BY <1>2, <1>3, FS_Surjection
<1>5. Cardinality(keys) \in Nat
  BY <1>4, FS_CardinalityType
<1>6. more \in [1 .. Cardinality(keys) -> [target : New(w), root : {FALSE}]]
  BY DEF Additions
<1>7. [target : New(w), root : {FALSE}] \subseteq Known
  BY <1>1 DEF Item, Known
<1> HIDE DEF keys
<1>8. more \in [1 .. Cardinality(keys) -> Known]
  BY <1>6, <1>7
<1> QED BY <1>5, <1>8

LEMMA TypedInit == PoolInit => Typed
<1> SUFFICES ASSUME PoolInit PROVE Typed
  OBVIOUS
<1>1. result \in [Workers -> [found : SUBSET Targets, generated : BOOLEAN]]
      /\ \A w \in Workers : IsFiniteSet(result[w].found)
  BY FS_EmptySet DEF PoolInit, NoResult
<1>2. queue \in Seq(Item) /\ queue \in Seq(Known) /\ item \in [Workers -> Item \cup {NoItem}]
  BY DEF PoolInit
<1>3. pc \in [Workers -> Labels] /\ BusyWorkers = {}
  BY DEF PoolInit, Labels, BusyWorkers, Busy
<1>4. status = Idle /\ active = 0 /\ complete = FALSE /\ cancel = FALSE /\ done = {} /\ failures = {}
  BY DEF PoolInit
<1> QED BY <1>1, <1>2, <1>3, <1>4 DEF Typed, PoolTypeOK, Labels

LEMMA LaunchTyped == ASSUME Typed, Launch PROVE Typed'
<1>1. Requested \in [1 .. Len(Requested) -> Targets] /\ DOMAIN Requested = 1 .. Len(Requested)
      /\ Len(Requested) \in Nat
  BY RequestedOnce, LenProperties
<1>2. [i \in DOMAIN Requested |-> [target |-> Requested[i], root |-> TRUE]] \in [1 .. Len(Requested) -> Known]
  BY <1>1 DEF Item, Known, Roots
<1>3. queue' \in Seq(Known) /\ queue' \in Seq(Item)
  BY <1>1, <1>2 DEF Launch, Known
<1>4. pc' \in [Workers -> Labels] /\ BusyWorkers' = {}
  BY DEF Launch, Labels, BusyWorkers, Busy
<1>5. UNCHANGED <<active, complete, cancel, item, result, done, failures>> /\ status' = "running"
  BY DEF Launch
<1> QED BY <1>3, <1>4, <1>5 DEF Typed, PoolTypeOK, Labels

\* active_workers counts the workers that have something in hand.
ActiveCounted == active = Cardinality(BusyWorkers)

LEMMA BusyFinite == IsFiniteSet(BusyWorkers)
BY WorkersFinite, FS_Subset DEF BusyWorkers

LEMMA OneLess ==
    ASSUME Typed, ActiveCounted, NEW w \in BusyWorkers
    PROVE  active - 1 = Cardinality(BusyWorkers \ {w}) /\ active - 1 \in Nat
<1>1. IsFiniteSet(BusyWorkers \ {w}) /\ Cardinality(BusyWorkers \ {w}) = active - 1
  BY BusyFinite, FS_RemoveElement DEF ActiveCounted
<1> QED BY <1>1, FS_CardinalityType

\* Who is busy after a step of one worker.
LEMMA BusyMoves ==
    ASSUME Typed, NEW w \in Workers, NEW label \in Labels,
           \/ pc' = [pc EXCEPT ![w] = label]
           \/ pc' = [Notified EXCEPT ![w] = label]
    PROVE  BusyWorkers' = IF label \in Busy THEN BusyWorkers \cup {w} ELSE BusyWorkers \ {w}
<1>1. pc \in [Workers -> Labels]
  BY DEF Typed, PoolTypeOK, Labels
<1>2. \A v \in Workers \ {w} : pc'[v] = pc[v] \/ (pc[v] = "waiting" /\ pc'[v] = "take")
  BY <1>1 DEF Notified
<1>3. pc'[w] = label
  BY <1>1 DEF Notified
<1> QED BY <1>2, <1>3 DEF BusyWorkers, Busy

\* A worker that was busy and is, or was not and is not.
LEMMA BusyStays ==
    ASSUME Typed, NEW w \in Workers, NEW label \in Labels,
           \/ pc' = [pc EXCEPT ![w] = label]
           \/ pc' = [Notified EXCEPT ![w] = label],
           label \in Busy <=> w \in BusyWorkers
    PROVE  BusyWorkers' = BusyWorkers
<1>1. BusyWorkers' = IF label \in Busy THEN BusyWorkers \cup {w} ELSE BusyWorkers \ {w}
  BY BusyMoves
<1> QED BY <1>1

LEMMA WorkerTyped ==
    ASSUME Typed, ActiveCounted, NEW w \in Workers, Worker(w)
    PROVE  Typed' /\ ActiveCounted'
<1>1. pc \in [Workers -> Labels]
  BY DEF Typed, PoolTypeOK, Labels
<1>2. CASE Quit(w) \/ Leave(w) \/ FallAsleep(w) \/ Sleep(w) \/ Announce(w)
  <2>1. PICK label \in Labels \ Busy : pc' = [pc EXCEPT ![w] = label] \/ pc' = [Notified EXCEPT ![w] = label]
    BY <1>2 DEF Quit, Leave, FallAsleep, Sleep, Announce, Goto, Labels, Busy
  <2>2. pc' \in [Workers -> Labels]
    BY <1>1, <2>1, GotoTyped
  <2>3. w \notin BusyWorkers
    BY <1>2 DEF Quit, Leave, FallAsleep, Sleep, Announce, BusyWorkers, Busy
  <2>4. BusyWorkers' = BusyWorkers
    BY <2>1, <2>3, BusyMoves
  <2>5. UNCHANGED <<status, queue, active, complete, cancel, item, result, done, failures>>
    BY <1>2 DEF Quit, Leave, FallAsleep, Sleep, Announce
  <2> QED BY <2>2, <2>4, <2>5 DEF Typed, PoolTypeOK, Labels, ActiveCounted
<1>3. CASE Take(w)
  <2>1. pc' = [pc EXCEPT ![w] = "work"] /\ "work" \in Labels \cap Busy /\ w \notin BusyWorkers
    BY <1>3 DEF Take, Goto, Labels, Busy, BusyWorkers
  <2>2. pc' \in [Workers -> Labels] /\ BusyWorkers' = BusyWorkers \cup {w}
    BY <1>1, <2>1, GotoTyped, BusyMoves
  <2>3. active' = active + 1 /\ active' \in Nat /\ ActiveCounted'
    <3>1. Cardinality(BusyWorkers \cup {w}) = Cardinality(BusyWorkers) + 1
      BY <2>1, BusyFinite, FS_AddElement
    <3>2. active' = active + 1 /\ active \in Nat
      BY <1>3 DEF Take, Typed, PoolTypeOK
    <3> QED BY <2>2, <3>1, <3>2 DEF ActiveCounted
  <2>4. Head(queue) \in Known /\ queue' \in Seq(Known)
    BY <1>3, HeadTailProperties DEF Take, Typed
  <2>6. queue' \in Seq(Item) /\ item' \in [Workers -> Item \cup {NoItem}]
        /\ \A v \in BusyWorkers' : item'[v] \in Known
    BY <1>3, <2>2, <2>4 DEF Take, Typed, PoolTypeOK, Known, BusyWorkers
  <2>5. UNCHANGED <<status, complete, cancel, result, done, failures>>
    BY <1>3 DEF Take
  <2> QED BY <2>2, <2>3, <2>4, <2>5, <2>6 DEF Typed, PoolTypeOK, Labels
<1>4. CASE Work(w)
  <2>1. pc' = [pc EXCEPT ![w] = "recheck"] /\ "recheck" \in Labels \cap Busy /\ w \in BusyWorkers
    BY <1>4 DEF Work, Goto, Labels, Busy, BusyWorkers
  <2>2. pc' \in [Workers -> Labels] /\ BusyWorkers' = BusyWorkers
    <3>1. BusyWorkers' = BusyWorkers \cup {w}
      BY <2>1, BusyMoves
    <3> QED BY <1>1, <2>1, <3>1, GotoTyped
  <2>3. PICK outcome \in Outcomes : result' = [result EXCEPT ![w] = outcome]
    BY <1>4 DEF Work
  <2>4. outcome \in [found : SUBSET Targets, generated : BOOLEAN] /\ IsFiniteSet(outcome.found)
    BY OutcomesAreResults
  <2>5. result' \in [Workers -> [found : SUBSET Targets, generated : BOOLEAN]]
        /\ \A v \in Workers : IsFiniteSet(result'[v].found)
    BY <2>3, <2>4 DEF Typed, PoolTypeOK
  <2>6. UNCHANGED <<status, queue, active, complete, cancel, item, done, failures>>
    BY <1>4 DEF Work
  <2> QED BY <2>2, <2>5, <2>6 DEF Typed, PoolTypeOK, Labels, ActiveCounted
<1>5. CASE Commit(w)
  <2>1. pc' = [pc EXCEPT ![w] = "announce"] /\ "announce" \in Labels \ Busy /\ w \in BusyWorkers
    BY <1>5 DEF Commit, Goto, Labels, Busy, BusyWorkers
  <2>2. pc' \in [Workers -> Labels] /\ BusyWorkers' = BusyWorkers \ {w}
    BY <1>1, <2>1, GotoTyped, BusyMoves
  <2>3. active' \in Nat /\ ActiveCounted'
    BY <1>5, <2>1, <2>2, OneLess DEF Commit, ActiveCounted
  <2>4. PICK more \in Additions(w) : queue' = queue \o more
    BY <1>5 DEF Commit
  <2>5. queue' \in Seq(Known) /\ queue' \in Seq(Item)
    BY <2>4, AdditionsAreItems, ConcatProperties DEF Typed, Known
  <2>6. item' \in [Workers -> Item \cup {NoItem}]
    BY <1>5 DEF Commit, Typed, PoolTypeOK
  <2>7. result' \in [Workers -> [found : SUBSET Targets, generated : BOOLEAN]]
        /\ \A v \in Workers : IsFiniteSet(result'[v].found)
    BY <1>5, FS_EmptySet DEF Commit, Typed, PoolTypeOK, NoResult
  <2>8. done' \subseteq Item /\ failures' \subseteq Roots
    <3>1. item[w] \in Known
      BY <2>1 DEF Typed
    <3> QED BY <1>5, <3>1 DEF Commit, Typed, PoolTypeOK, Known
  <2>10. \A v \in BusyWorkers' : item'[v] \in Known
    BY <1>5, <2>2 DEF Commit, Typed, PoolTypeOK, BusyWorkers
  <2>9. complete' \in BOOLEAN /\ UNCHANGED <<status, cancel>>
    BY <1>5 DEF Commit, Typed, PoolTypeOK, AllDone
  <2> QED BY <2>2, <2>3, <2>5, <2>6, <2>7, <2>8, <2>9, <2>10 DEF Typed, PoolTypeOK, Labels
<1> QED BY <1>2, <1>3, <1>4, <1>5 DEF Worker

\* The steps that are no worker's alone.
Asks == (\E w \in Workers, stop \in BOOLEAN : Answer(w, stop)) \/ (\E stop \in BOOLEAN : Finish(stop))

LEMMA AnswerBusy ==
    ASSUME Typed, NEW w \in Workers, NEW stop \in BOOLEAN, Answer(w, stop)
    PROVE  BusyWorkers' = BusyWorkers /\ pc' \in [Workers -> Labels]
<1>1. pc \in [Workers -> Labels]
  BY DEF Typed, PoolTypeOK, Labels
<1>2. CASE pc[w] = "recheck"
  <2>1. pc' = [pc EXCEPT ![w] = "commit"]
    BY <1>2 DEF Answer, Goto
  <2>2. "commit" \in Labels /\ "commit" \in Busy /\ w \in BusyWorkers
    BY <1>2 DEF Labels, Busy, BusyWorkers
  <2> QED BY <1>1, <2>1, <2>2, BusyStays, GotoTyped
<1>3. CASE pc[w] = "poll"
  <2>1. PICK label \in {"quit", "take"} : pc' = [pc EXCEPT ![w] = label]
    BY <1>3 DEF Answer, Goto
  <2>2. label \in Labels /\ label \notin Busy /\ w \notin BusyWorkers
    BY <1>3 DEF Labels, Busy, BusyWorkers
  <2> QED BY <1>1, <2>1, <2>2, BusyStays, GotoTyped
<1> QED BY <1>2, <1>3 DEF Answer

LEMMA AsksTyped == ASSUME Typed, ActiveCounted, Asks PROVE Typed' /\ ActiveCounted'
<1>1. ASSUME NEW w \in Workers, NEW stop \in BOOLEAN, Answer(w, stop) PROVE Typed' /\ ActiveCounted'
  <2>1. UNCHANGED <<status, queue, active, complete, item, result, done, failures>> /\ cancel' \in BOOLEAN
    BY <1>1 DEF Answer
  <2> QED BY <1>1, <2>1, AnswerBusy DEF Typed, PoolTypeOK, ActiveCounted, Labels
<1>2. ASSUME NEW stop \in BOOLEAN, Finish(stop) PROVE Typed' /\ ActiveCounted'
  <2>1. UNCHANGED <<queue, active, complete, pc, item, result, done, failures>> /\ cancel' \in BOOLEAN
        /\ status' \in {"0", "1", "130"}
    BY <1>2 DEF Finish
  <2> QED BY <2>1 DEF Typed, PoolTypeOK, ActiveCounted, Labels, BusyWorkers
<1> QED BY <1>1, <1>2 DEF Asks

-----------------------------------------------------------------------------
(* The pool stops when nothing is left, and nobody is left asleep *)

\* The pool is complete exactly when the queue is empty and no worker is active, and a
\* worker falls asleep only while another is at work: the lock keeps that one from leaving.
Settled ==
    /\ status /= "running" => \A w \in Workers : pc[w] = "done"
    /\ status = Idle => ~complete /\ active = 0
    /\ complete => queue = <<>> /\ active = 0
    /\ status /= Idle /\ queue = <<>> /\ active = 0 => complete
    /\ (\E w \in Workers : pc[w] = "falling") => BusyWorkers /= {}

LEMMA NobodyBusy == ASSUME ActiveCounted, active = 0 PROVE BusyWorkers = {}
BY BusyFinite, FS_EmptySet DEF ActiveCounted

LEMMA SomebodyBusy == ASSUME ActiveCounted, NEW w \in BusyWorkers PROVE active /= 0
BY BusyFinite, FS_EmptySet DEF ActiveCounted

\* What a worker does keeps every other worker where it is, or wakes it.
LEMMA Others ==
    ASSUME Typed, NEW w \in Workers, NEW label \in Labels,
           \/ pc' = [pc EXCEPT ![w] = label]
           \/ pc' = [Notified EXCEPT ![w] = label]
    PROVE  /\ pc'[w] = label
           /\ \A v \in Workers \ {w} : pc'[v] = pc[v] \/ (pc[v] = "waiting" /\ pc'[v] = "take")
BY DEF Typed, PoolTypeOK, Notified

LEMMA SettledWorker ==
    ASSUME Typed, ActiveCounted, Settled, NEW w \in Workers, Worker(w)
    PROVE  Settled'
<1>1. status = "running" /\ UNCHANGED status
  BY DEF Settled, Worker, Quit, Leave, Take, FallAsleep, Sleep, Work, Commit, Announce
<1>2. CASE Quit(w) \/ Leave(w) \/ Sleep(w) \/ Work(w) \/ Announce(w)
  <2>1. PICK label \in Labels \ {"falling"} :
           /\ pc' = [pc EXCEPT ![w] = label] \/ pc' = [Notified EXCEPT ![w] = label]
           /\ label \in Busy <=> w \in BusyWorkers
    BY <1>2 DEF Quit, Leave, Sleep, Work, Announce, Goto, Labels, Busy, BusyWorkers
  <2>2. BusyWorkers' = BusyWorkers
    BY <2>1, BusyStays
  <2>3. \A v \in Workers : pc'[v] = "falling" => pc[v] = "falling"
    BY <2>1, Others
  <2>4. UNCHANGED <<queue, active, complete>>
    BY <1>2 DEF Quit, Leave, Sleep, Work, Announce
  <2> QED BY <1>1, <2>2, <2>3, <2>4 DEF Settled, Idle
<1>3. CASE Take(w)
  <2>1. pc' = [pc EXCEPT ![w] = "work"] /\ "work" \in Labels \cap Busy
    BY <1>3 DEF Take, Goto, Labels, Busy
  <2>2. BusyWorkers' = BusyWorkers \cup {w}
    BY <2>1, BusyMoves
  <2>3. complete' = FALSE /\ active' /= 0
    BY <1>3 DEF Take, Typed, PoolTypeOK
  <2> QED BY <1>1, <2>2, <2>3 DEF Settled, Idle
<1>4. CASE FallAsleep(w)
  <2>1. pc' = [pc EXCEPT ![w] = "falling"] /\ "falling" \in Labels \ Busy /\ w \notin BusyWorkers
    BY <1>4 DEF FallAsleep, Goto, Labels, Busy, BusyWorkers
  <2>2. BusyWorkers' = BusyWorkers
    BY <2>1, BusyStays
  <2>3. active /= 0 /\ UNCHANGED <<queue, active, complete>>
    BY <1>1, <1>4 DEF FallAsleep, Settled, Idle
  <2>4. BusyWorkers /= {}
    BY <2>3, FS_EmptySet DEF ActiveCounted
  <2> QED BY <1>1, <2>2, <2>3, <2>4 DEF Settled, Idle
<1>5. CASE Commit(w)
  <2>1. pc' = [pc EXCEPT ![w] = "announce"] /\ "announce" \in Labels /\ w \in BusyWorkers
    BY <1>5 DEF Commit, Goto, Labels, Busy, BusyWorkers
  <2>2. \A v \in Workers : pc'[v] /= "falling"
    BY <1>5, <2>1, Others DEF Commit, LockFree
  <2>3. ~complete
    BY <2>1, SomebodyBusy DEF Settled
  <2>4. complete' = (queue' = <<>> /\ active' = 0)
    BY <1>5, <2>3 DEF Commit, AllDone
  <2> QED BY <1>1, <2>2, <2>4 DEF Settled, Idle
<1> QED BY <1>2, <1>3, <1>4, <1>5 DEF Worker

LEMMA SettledLaunch == ASSUME Settled, Launch PROVE Settled'
<1>1. queue' /= <<>>
  <2>1. 1 \in DOMAIN Requested
    BY RequestedOnce, LenProperties, EmptySeq
  <2> QED BY <2>1 DEF Launch
<1>2. \A w \in Workers : pc'[w] = "poll"
  BY DEF Launch
<1> QED BY <1>1, <1>2 DEF Settled, Launch, Idle

LEMMA SettledAsks == ASSUME Typed, Settled, Asks PROVE Settled'
<1>1. ASSUME NEW w \in Workers, NEW stop \in BOOLEAN, Answer(w, stop) PROVE Settled'
  <2>1. status = "running" /\ UNCHANGED <<status, queue, active, complete>>
    BY <1>1 DEF Answer, Settled
  <2>2. \A v \in Workers : pc'[v] = "falling" => pc[v] = "falling"
    BY <1>1 DEF Answer, Goto, Typed, PoolTypeOK
  <2> QED BY <1>1, <2>1, <2>2, AnswerBusy DEF Settled, Idle
<1>2. ASSUME NEW stop \in BOOLEAN, Finish(stop) PROVE Settled'
  BY <1>2 DEF Finish, Joined, Settled, Idle, BusyWorkers
<1> QED BY <1>1, <1>2 DEF Asks

LEMMA SettledInit == PoolInit => Settled
BY DEF PoolInit, Settled, Idle

\* The three parts together are inductive.
Sound == Typed /\ ActiveCounted /\ Settled

LEMMA SoundInit == PoolInit => Sound
<1> SUFFICES ASSUME PoolInit PROVE ActiveCounted
  BY TypedInit, SettledInit DEF Sound
<1>1. BusyWorkers = {} /\ active = 0
  BY DEF PoolInit, BusyWorkers, Busy
<1> QED BY <1>1, FS_EmptySet DEF ActiveCounted

LEMMA LaunchCounted == ASSUME Typed, ActiveCounted, Settled, Launch PROVE ActiveCounted'
<1>1. BusyWorkers' = {} /\ active' = 0
  BY DEF Launch, BusyWorkers, Busy, Settled
<1> QED BY <1>1, FS_EmptySet DEF ActiveCounted

LEMMA SoundNext == Sound /\ [PoolNext]_poolVars => Sound'
<1> SUFFICES ASSUME Sound, [PoolNext]_poolVars PROVE Sound'
  OBVIOUS
<1>1. CASE UNCHANGED poolVars
  BY <1>1 DEF poolVars, Sound, Typed, PoolTypeOK, ActiveCounted, Settled, BusyWorkers
<1>2. CASE Launch
  BY <1>2, LaunchTyped, LaunchCounted, SettledLaunch DEF Sound
<1>3. CASE Asks
  BY <1>3, AsksTyped, SettledAsks DEF Sound
<1>4. CASE \E w \in Workers : Worker(w)
  BY <1>4, WorkerTyped, SettledWorker DEF Sound
<1> QED BY <1>1, <1>2, <1>3, <1>4 DEF PoolNext, Asks

\* The variables of the pool keep their types, and active_workers is never below zero.
THEOREM PoolTypeCorrect == PoolSpec => []PoolTypeOK
<1>1. Sound => PoolTypeOK
  BY DEF Sound, Typed
<1> QED BY <1>1, SoundInit, SoundNext, PTL DEF PoolSpec

\* The pool declares itself complete only when no worker holds work or can discover any,
\* however the last worker and a discovery cross (work_complete).
THEOREM PoolStopsLate == PoolSpec => []NoEarlyStop
<1>1. Sound => NoEarlyStop
  BY NobodyBusy DEF Sound, Settled, NoEarlyStop
<1> QED BY <1>1, SoundInit, SoundNext, PTL DEF PoolSpec

\* One worker's step leaves somebody awake.
LEMMA HopeWorker ==
    ASSUME Sound, WaiterHasHope, NEW w \in Workers, Worker(w)
    PROVE  WaiterHasHope'
<1>1. pc \in [Workers -> Labels]
  BY DEF Sound, Typed, PoolTypeOK, Labels
<1>2. CASE Quit(w) \/ Announce(w)
  <2>1. PICK label \in {"done", "poll"} : pc' = [Notified EXCEPT ![w] = label]
    BY <1>2 DEF Quit, Announce
  <2>2. SUFFICES ASSUME NEW v \in Workers, pc'[v] \in {"falling", "waiting"}
                 PROVE  \E u \in Workers : pc'[u] \in Awake
    BY DEF WaiterHasHope
  <2>3. pc[v] = "falling"
    BY <1>1, <2>1, <2>2 DEF Notified
  <2>4. PICK u \in Workers : pc[u] \in Busy
    BY <2>3 DEF Sound, Settled, BusyWorkers
  <2>5. pc[w] \notin Busy
    BY <1>2 DEF Quit, Announce, Busy
  <2>6. pc'[u] = pc[u]
    BY <1>1, <2>1, <2>4, <2>5 DEF Notified, Busy
  <2> QED BY <2>4, <2>6 DEF Awake
<1>3. CASE Leave(w)
  BY <1>1, <1>3 DEF Leave, Goto, WaiterHasHope, Awake, Busy
<1>4. CASE FallAsleep(w)
  <2>1. Sound'
    BY SoundNext DEF PoolNext
  <2>2. pc'[w] = "falling"
    BY <1>1, <1>4 DEF FallAsleep, Goto
  <2>3. PICK v \in Workers : pc'[v] \in Busy
    BY <2>1, <2>2 DEF Sound, Settled, BusyWorkers
  <2> QED BY <2>3 DEF WaiterHasHope, Awake
<1>5. CASE Sleep(w)
  <2>1. pc[w] = "falling" /\ pc' = [pc EXCEPT ![w] = "waiting"]
    BY <1>5 DEF Sleep, Goto
  <2> QED BY <1>1, <2>1 DEF WaiterHasHope, Awake, Busy
<1>6. CASE Take(w) \/ Work(w) \/ Commit(w)
  <2>1. pc'[w] \in Awake
    BY <1>1, <1>6 DEF Take, Work, Commit, Goto, Awake, Busy
  <2> QED BY <2>1 DEF WaiterHasHope
<1> QED BY <1>2, <1>3, <1>4, <1>5, <1>6 DEF Worker

LEMMA HopeNext == Sound /\ WaiterHasHope /\ [PoolNext]_poolVars => WaiterHasHope'
<1> SUFFICES ASSUME Sound, WaiterHasHope, [PoolNext]_poolVars PROVE WaiterHasHope'
  OBVIOUS
<1>1. pc \in [Workers -> Labels]
  BY DEF Sound, Typed, PoolTypeOK, Labels
<1>2. CASE UNCHANGED poolVars
  BY <1>2 DEF poolVars, WaiterHasHope
<1>3. CASE Launch
  BY <1>3 DEF Launch, WaiterHasHope
<1>4. ASSUME NEW w \in Workers, NEW stop \in BOOLEAN, Answer(w, stop) PROVE WaiterHasHope'
  BY <1>1, <1>4 DEF Answer, Goto, WaiterHasHope, Awake, Busy
<1>5. ASSUME NEW stop \in BOOLEAN, Finish(stop) PROVE WaiterHasHope'
  BY <1>5 DEF Finish, WaiterHasHope
<1> QED BY <1>2, <1>3, <1>4, <1>5, HopeWorker DEF PoolNext

\* Nobody sleeps on work_cv without another worker awake that will notify it, although
\* cancel_requested is set and the notification sent without work_mutex.
THEOREM NobodySleepsForGood == PoolSpec => []WaiterHasHope
<1>1. PoolInit => WaiterHasHope
  BY DEF PoolInit, WaiterHasHope
<1> QED BY <1>1, SoundInit, SoundNext, HopeNext, PTL DEF PoolSpec

-----------------------------------------------------------------------------
(* The pool implements CompletionBatch *)

\* Sequences without repetition, and the items in them.
Elements(q) == {q[i] : i \in DOMAIN q}
Injective(q) == \A i, j \in DOMAIN q : q[i] = q[j] => i = j

LEMMA TailElements ==
    ASSUME NEW S, NEW q \in Seq(S), q /= <<>>, Injective(q)
    PROVE  Elements(Tail(q)) = Elements(q) \ {Head(q)} /\ Injective(Tail(q)) /\ Head(q) \in Elements(q)
<1>1. /\ Len(q) \in Nat /\ Len(q) >= 1 /\ DOMAIN q = 1 .. Len(q) /\ Head(q) = q[1]
      /\ DOMAIN Tail(q) = 1 .. (Len(q) - 1)
      /\ \A i \in 1 .. (Len(q) - 1) : Tail(q)[i] = q[i + 1]
  BY HeadTailProperties, EmptySeq, LenProperties
<1>2. Injective(Tail(q))
  BY <1>1 DEF Injective
<1>3. Elements(Tail(q)) \subseteq Elements(q) \ {Head(q)}
  BY <1>1 DEF Elements, Injective
<1>4. ASSUME NEW x \in Elements(q) \ {Head(q)} PROVE x \in Elements(Tail(q))
  <2>1. PICK i \in 2 .. Len(q) : x = q[i]
    BY <1>1, <1>4 DEF Elements
  <2>2. i - 1 \in 1 .. (Len(q) - 1) /\ Tail(q)[i - 1] = q[i]
    BY <1>1, <2>1
  <2> QED BY <1>1, <2>1, <2>2 DEF Elements
<1> QED BY <1>1, <1>2, <1>3, <1>4 DEF Elements

LEMMA ConcatElements ==
    ASSUME NEW S, NEW q \in Seq(S), NEW r \in Seq(S)
    PROVE  /\ Elements(q \o r) = Elements(q) \cup Elements(r)
           /\ Injective(q) /\ Injective(r) /\ Elements(q) \cap Elements(r) = {} => Injective(q \o r)
<1>1. /\ q \o r \in Seq(S) /\ Len(q) \in Nat /\ Len(r) \in Nat
      /\ DOMAIN q = 1 .. Len(q) /\ DOMAIN r = 1 .. Len(r) /\ DOMAIN (q \o r) = 1 .. (Len(q) + Len(r))
      /\ \A i \in 1 .. (Len(q) + Len(r)) : (q \o r)[i] = IF i <= Len(q) THEN q[i] ELSE r[i - Len(q)]
  BY ConcatProperties, LenProperties
<1> DEFINE s == q \o r
<1>2. \A i \in DOMAIN q : i \in DOMAIN s /\ s[i] = q[i]
  BY <1>1
<1>3. \A i \in DOMAIN r : i + Len(q) \in DOMAIN s /\ s[i + Len(q)] = r[i]
  BY <1>1
<1>4. \A i \in DOMAIN s : (i \in DOMAIN q /\ s[i] = q[i]) \/ (i - Len(q) \in DOMAIN r /\ s[i] = r[i - Len(q)])
  BY <1>1
<1>5. \A i \in DOMAIN s : i \in Nat
  BY <1>1
<1>6. Len(q) \in Nat /\ \A i \in DOMAIN r : i \in Nat
  BY <1>1
<1> HIDE DEF s
<1>7. Elements(s) = Elements(q) \cup Elements(r)
  BY <1>2, <1>3, <1>4 DEF Elements
<1>8. ASSUME Injective(q), Injective(r), Elements(q) \cap Elements(r) = {} PROVE Injective(s)
  <2> SUFFICES ASSUME NEW i \in DOMAIN s, NEW j \in DOMAIN s, s[i] = s[j] PROVE i = j
    BY DEF Injective
  <2>1. CASE i \in DOMAIN q /\ s[i] = q[i] /\ j \in DOMAIN q /\ s[j] = q[j]
    BY <1>8, <2>1 DEF Injective
  <2>2. CASE /\ i - Len(q) \in DOMAIN r /\ s[i] = r[i - Len(q)]
             /\ j - Len(q) \in DOMAIN r /\ s[j] = r[j - Len(q)]
    <3>1. i - Len(q) = j - Len(q)
      BY <1>8, <2>2 DEF Injective
    <3> QED BY <1>5, <1>6, <3>1
  <2>3. ASSUME NEW k \in DOMAIN q, NEW l \in DOMAIN r PROVE q[k] /= r[l]
    BY <1>8 DEF Elements
  <2> QED BY <1>4, <2>1, <2>2, <2>3
<1> QED BY <1>7, <1>8 DEF s

\* Nothing is queued, in hand or done twice, and all of it is scheduled; failures are
\* requested commands that are done; and the workers leave when there is a reason to.
Orderly ==
    /\ Injective(queue)
    /\ \A v, w \in BusyWorkers : item[v] = item[w] => v = w
    /\ Queued \cap InHand = {} /\ Queued \cap done = {} /\ InHand \cap done = {}
    /\ \A i \in Queued \cup InHand \cup done : Key(i.target) \in scheduled
    /\ done \subseteq Known
    /\ \A t \in failures : \E i \in done : i.root /\ i.target = t
    /\ status = Idle => queue = <<>> /\ done = {} /\ failures = {}
    /\ status = "running" => \A w \in Workers : pc[w] \in {"quit", "done"} => cancel \/ complete

Waiting == IF status = Idle THEN RootItems ELSE Queued
Failed == {i \in done : i.root /\ i.target \in failures}
Verdict == IF status \in {Idle, "running"} THEN "none" ELSE status
barVars == <<Waiting, InHand, done, Failed, Verdict>>

LEMMA AdditionsAreNew ==
    ASSUME Typed, Orderly, NEW w \in Workers, NEW more \in Additions(w)
    PROVE  /\ Injective(more)
           /\ \A i \in Elements(more) :
                 /\ i \in Known /\ Key(i.target) \notin scheduled
                 /\ Key(i.target) \in {Key(t) : t \in New(w)}
                 /\ i \notin Queued \cup InHand \cup done
<1>1. more \in Seq(Known)
  BY AdditionsAreItems
<1>2. \A i \in DOMAIN more : more[i] \in [target : New(w), root : {FALSE}]
  BY DEF Additions
<1>3. \A i, j \in DOMAIN more : i /= j => Key(more[i].target) /= Key(more[j].target)
  BY DEF Additions
<1>4. Injective(more)
  BY <1>3 DEF Injective
<1>5. \A t \in New(w) : Key(t) \notin scheduled
  BY DEF New
<1>6. \A i \in Elements(more) : i \in Known /\ i.target \in New(w)
  <2>1. \A i \in DOMAIN more : more[i] \in Known
    BY <1>1, LenProperties
  <2>2. \A i \in DOMAIN more : more[i].target \in New(w)
    BY <1>2
  <2> QED BY <2>1, <2>2 DEF Elements
<1> QED BY <1>4, <1>5, <1>6 DEF Orderly

LEMMA OrderlyInit == PoolInit => Orderly
BY DEF PoolInit, Orderly, Queued, InHand, BusyWorkers, Busy, Injective, Idle

LEMMA LaunchOrderly ==
    ASSUME Sound, Orderly, Launch
    PROVE  Orderly' /\ UNCHANGED barVars
<1>1. /\ DOMAIN queue' = DOMAIN Requested
      /\ \A i \in DOMAIN Requested : queue'[i] = [target |-> Requested[i], root |-> TRUE]
      /\ scheduled' = {Key(t) : t \in Roots}
      /\ status = Idle /\ status' = "running" /\ UNCHANGED <<done, failures, item>>
      /\ done = {} /\ failures = {}
  BY DEF Launch, Orderly
<1>2. BusyWorkers = {} /\ BusyWorkers' = {}
  BY <1>1 DEF Launch, BusyWorkers, Busy, Sound, Settled, Idle
<1>3. Queued' = RootItems
  <2>1. Queued' \subseteq RootItems
    <3>1. \A i \in DOMAIN Requested : Requested[i] \in Roots
      BY DEF Roots
    <3>2. \A x \in Roots : [target |-> x, root |-> TRUE] \in RootItems
      BY DEF RootItems
    <3> QED BY <1>1, <3>1, <3>2 DEF Queued
  <2>2. ASSUME NEW r \in RootItems PROVE r \in Queued'
    <3>1. PICK i \in DOMAIN Requested : r.target = Requested[i]
      BY DEF RootItems, Roots
    <3>2. r = [target |-> Requested[i], root |-> TRUE]
      BY <3>1 DEF RootItems
    <3> QED BY <1>1, <3>2 DEF Queued
  <2> QED BY <2>1, <2>2
<1>4. Injective(queue')
  BY <1>1, RequestedOnce DEF Injective
<1>5. \A i \in RootItems : Key(i.target) \in scheduled'
  BY <1>1 DEF RootItems
<1>6. \A w \in Workers : pc'[w] = "poll"
  BY DEF Launch
<1>7. InHand = {} /\ InHand' = {}
  BY <1>2 DEF InHand
<1>8. Orderly'
  BY <1>1, <1>2, <1>3, <1>4, <1>5, <1>6, <1>7 DEF Orderly, Idle
<1>9. UNCHANGED barVars
  BY <1>1, <1>3, <1>7 DEF barVars, Waiting, Failed, Verdict, Idle
<1> QED BY <1>8, <1>9

\* The steps that move no item.
LEMMA IdleOrderly ==
    ASSUME Orderly, UNCHANGED <<status, queue, scheduled, complete, item, done, failures>>,
           BusyWorkers' = BusyWorkers, cancel => cancel',
           \A w \in Workers : status = "running" /\ pc'[w] \in {"quit", "done"}
                                 => pc[w] \in {"quit", "done"} \/ cancel' \/ complete
    PROVE  Orderly' /\ UNCHANGED barVars
<1>1. Queued' = Queued /\ InHand' = InHand
  BY DEF Queued, InHand
<1>2. Orderly'
  BY <1>1 DEF Orderly, Injective
<1>3. UNCHANGED barVars
  BY <1>1 DEF barVars, Waiting, Failed, Verdict
<1> QED BY <1>2, <1>3

LEMMA TakeOrderly ==
    ASSUME Sound, Orderly, NEW w \in Workers, Take(w)
    PROVE  /\ Orderly'
           /\ \E i \in Waiting : /\ Waiting' = Waiting \ {i}
                                 /\ InHand' = InHand \cup {i}
                                 /\ UNCHANGED <<done, Failed, Verdict>>
<1> DEFINE i == Head(queue)
<1>1. status = "running" /\ UNCHANGED <<status, scheduled, complete, cancel, done, failures>>
  BY DEF Take, Sound, Settled
<1>2. queue \in Seq(Known) /\ queue /= <<>> /\ queue' = Tail(queue) /\ item' = [item EXCEPT ![w] = i]
  BY DEF Take, Sound, Typed
<1>3. Queued' = Queued \ {i} /\ Injective(queue') /\ i \in Queued
  <2>1. Elements(queue') = Elements(queue) \ {i} /\ Injective(queue') /\ i \in Elements(queue)
    BY <1>2, TailElements DEF Orderly
  <2> QED BY <2>1 DEF Elements, Queued
<1>4. BusyWorkers' = BusyWorkers \cup {w} /\ w \notin BusyWorkers /\ pc'[w] = "work"
      /\ \A v \in Workers \ {w} : pc'[v] = pc[v]
  <2>1. pc' = [pc EXCEPT ![w] = "work"] /\ "work" \in Labels /\ "work" \in Busy /\ w \notin BusyWorkers
    BY DEF Take, Goto, Labels, Busy, BusyWorkers
  <2> QED BY <2>1, BusyMoves DEF Sound, Typed, PoolTypeOK
<1>5. item'[w] = i /\ \A v \in Workers \ {w} : item'[v] = item[v]
  BY <1>2 DEF Sound, Typed, PoolTypeOK
<1> HIDE DEF i
<1>6. InHand' = InHand \cup {i} /\ i \notin InHand /\ i \notin done
  BY <1>3, <1>4, <1>5 DEF InHand, Orderly, BusyWorkers
<1>7. \A u, v \in BusyWorkers' : item'[u] = item'[v] => u = v
  BY <1>4, <1>5, <1>6 DEF InHand, Orderly, BusyWorkers
<1>8. Orderly'
  BY <1>1, <1>3, <1>4, <1>6, <1>7 DEF Orderly, Idle
<1>9. Waiting = Queued /\ Waiting' = Waiting \ {i} /\ UNCHANGED <<done, Failed, Verdict>>
  BY <1>1, <1>3 DEF Waiting, Failed, Verdict, Idle
<1> QED BY <1>3, <1>6, <1>8, <1>9

LEMMA CommitOrderly ==
    ASSUME Sound, Orderly, NEW w \in Workers, Commit(w)
    PROVE  /\ Orderly'
           /\ item[w] \in InHand
           /\ InHand' = InHand \ {item[w]}
           /\ done' = done \cup {item[w]}
           /\ \E new \in SUBSET (Item \ (Waiting \cup InHand \cup done)) : Waiting' = Waiting \cup new
           /\ Failed' \in {Failed, Failed \cup {item[w]}}
           /\ UNCHANGED Verdict
<1>1. /\ status = "running" /\ UNCHANGED <<status, cancel>> /\ done' = done \cup {item[w]}
      /\ complete => complete'
      /\ scheduled' = scheduled \cup {Key(t) : t \in New(w)}
  BY DEF Commit, Sound, Settled
<1>2. PICK more \in Additions(w) : queue' = queue \o more
  BY DEF Commit
<1>3. more \in Seq(Known) /\ queue \in Seq(Known)
  BY AdditionsAreItems DEF Sound, Typed
<1> DEFINE new == Elements(more)
<1>4. /\ Injective(more)
      /\ \A i \in new : /\ i \in Known /\ Key(i.target) \in scheduled'
                        /\ i \notin Queued \cup InHand \cup done
  BY <1>1, AdditionsAreNew DEF Sound
<1>5. Queued' = Queued \cup new /\ Injective(queue')
  <2>1. Queued = Elements(queue) /\ Queued' = Elements(queue')
    BY DEF Queued, Elements
  <2>2. Injective(queue) /\ Elements(queue) \cap Elements(more) = {}
    BY <1>4, <2>1 DEF Orderly
  <2> QED BY <1>2, <1>3, <1>4, <2>1, <2>2, ConcatElements
<1> HIDE DEF new
<1>6. BusyWorkers' = BusyWorkers \ {w} /\ w \in BusyWorkers /\ pc'[w] = "announce"
      /\ \A v \in Workers \ {w} : pc'[v] = pc[v]
  <2>1. pc' = [pc EXCEPT ![w] = "announce"] /\ "announce" \in Labels /\ "announce" \notin Busy /\ w \in BusyWorkers
    BY DEF Commit, Goto, Labels, Busy, BusyWorkers
  <2> QED BY <2>1, BusyMoves DEF Sound, Typed, PoolTypeOK
<1>7. \A v \in Workers \ {w} : item'[v] = item[v]
  BY DEF Commit, Sound, Typed, PoolTypeOK
<1>8. item[w] \in InHand /\ item[w] \in Known /\ InHand' = InHand \ {item[w]}
  <2>1. \A v \in BusyWorkers \ {w} : item[v] /= item[w]
    BY <1>6 DEF Orderly
  <2> QED BY <1>6, <1>7, <2>1 DEF InHand, Sound, Typed, BusyWorkers
<1>9. \A u, v \in BusyWorkers' : item'[u] = item'[v] => u = v
  BY <1>6, <1>7 DEF Orderly, BusyWorkers
<1>10. \/ failures' = failures
       \/ item[w].root /\ failures' = failures \cup {item[w].target}
  BY DEF Commit
<1>11. \A t \in failures' : \E i \in done' : i.root /\ i.target = t
  BY <1>1, <1>10 DEF Orderly
<1>12. Queued' \cap InHand' = {} /\ Queued' \cap done' = {} /\ InHand' \cap done' = {}
  BY <1>1, <1>4, <1>5, <1>8 DEF Orderly
<1>13. \A i \in Queued' \cup InHand' \cup done' : Key(i.target) \in scheduled'
  BY <1>1, <1>4, <1>5, <1>8 DEF Orderly
<1>14. Orderly'
  BY <1>1, <1>5, <1>6, <1>8, <1>9, <1>11, <1>12, <1>13 DEF Orderly, Idle
<1>15. Waiting = Queued /\ Waiting' = Waiting \cup new /\ UNCHANGED Verdict
  BY <1>1, <1>5 DEF Waiting, Verdict, Idle
<1>16. new \in SUBSET (Item \ (Waiting \cup InHand \cup done))
  BY <1>4, <1>15 DEF Known
<1>17. Failed' \in {Failed, Failed \cup {item[w]}}
  <2>1. \A i \in done : i.root /\ i.target = item[w].target /\ item[w].root => i = item[w]
    BY <1>8 DEF Orderly, Known, Item
  <2>2. item[w] \notin done
    BY <1>8 DEF Orderly
  <2>3. CASE failures' = failures
    BY <1>1, <2>3 DEF Failed
  <2>4. CASE item[w].root /\ failures' = failures \cup {item[w].target}
    BY <1>1, <2>1, <2>4 DEF Failed
  <2> QED BY <1>10, <2>3, <2>4
<1> QED BY <1>1, <1>8, <1>14, <1>15, <1>16, <1>17

LEMMA FinishOrderly ==
    ASSUME Sound, Orderly, NEW stop \in BOOLEAN, Finish(stop)
    PROVE  /\ Orderly'
           /\ UNCHANGED <<Waiting, InHand, done, Failed>>
           /\ InHand = {}
           /\ Verdict = "none" /\ Verdict' \in {"0", "1", "130"}
           /\ Verdict' /= "130" => Waiting = {}
           /\ Verdict' = "0" <=> (Verdict' /= "130" /\ Failed = {})
<1>1. /\ status = "running" /\ \A w \in Workers : pc[w] = "done"
      /\ UNCHANGED <<queue, scheduled, active, complete, pc, item, result, done, failures>>
      /\ cancel => stop
      /\ status' = IF stop THEN "130" ELSE IF failures /= {} THEN "1" ELSE "0"
  BY DEF Finish, Joined
<1>2. Queued' = Queued /\ InHand' = InHand /\ InHand = {} /\ BusyWorkers' = BusyWorkers
  BY <1>1 DEF Queued, InHand, BusyWorkers, Busy
<1>3. Orderly'
  BY <1>1, <1>2 DEF Orderly, Injective, Idle
<1>4. ~stop => Queued = {}
  <2>1. ~stop => complete
    BY <1>1, WorkersFinite DEF Orderly
  <2>2. complete => queue = <<>>
    BY DEF Sound, Settled
  <2> QED BY <2>1, <2>2 DEF Queued
<1>5. Failed = {} <=> failures = {}
  BY DEF Failed, Orderly
<1>6. Failed' = Failed /\ Waiting = Queued /\ Waiting' = Waiting /\ Verdict = "none" /\ Verdict' = status'
  BY <1>1, <1>2 DEF Failed, Waiting, Verdict, Idle
<1> QED BY <1>1, <1>2, <1>3, <1>4, <1>5, <1>6

LEMMA OrderlyNext ==
    ASSUME Sound, Orderly, [PoolNext]_poolVars
    PROVE  Orderly' /\ [Batch!BatchNext]_(Batch!batchVars)
<1> DEFINE Kept == UNCHANGED barVars
<1>0. Kept => [Batch!BatchNext]_(Batch!batchVars)
  BY DEF barVars, Batch!batchVars, Waiting, Failed, Verdict
<1>1. pc \in [Workers -> Labels]
  BY DEF Sound, Typed, PoolTypeOK, Labels
<1>2. ASSUME UNCHANGED <<status, queue, scheduled, complete, item, done, failures>>,
             BusyWorkers' = BusyWorkers, cancel => cancel',
             \A w \in Workers : status = "running" /\ pc'[w] \in {"quit", "done"}
                                   => pc[w] \in {"quit", "done"} \/ cancel' \/ complete
      PROVE Orderly' /\ Kept
  BY <1>2, IdleOrderly
<1>3. CASE UNCHANGED poolVars
  BY <1>0, <1>2, <1>3 DEF poolVars, BusyWorkers
<1>4. CASE Launch
  BY <1>0, <1>4, LaunchOrderly
<1>5. ASSUME NEW w \in Workers, NEW stop \in BOOLEAN, Answer(w, stop) PROVE Orderly' /\ Kept
  <2>1. BusyWorkers' = BusyWorkers
    BY <1>5, AnswerBusy DEF Sound
  <2>2. \A v \in Workers : pc'[v] \in {"quit", "done"} => pc[v] \in {"quit", "done"} \/ cancel'
    BY <1>1, <1>5 DEF Answer, Goto
  <2>3. (cancel => cancel') /\ UNCHANGED <<status, queue, scheduled, complete, item, done, failures>>
    BY <1>5 DEF Answer
  <2> QED BY <1>2, <2>1, <2>2, <2>3
<1>6. ASSUME NEW stop \in BOOLEAN, Finish(stop) PROVE Orderly' /\ [Batch!BatchNext]_(Batch!batchVars)
  <2>1. Orderly' /\ \E code \in {"0", "1", "130"} : Batch!Answers(code)
    BY <1>6, FinishOrderly DEF Batch!Answers, Waiting, Failed, Verdict
  <2> QED BY <2>1 DEF Batch!BatchNext
<1>7. ASSUME NEW w \in Workers, Take(w) PROVE Orderly' /\ [Batch!BatchNext]_(Batch!batchVars)
  <2>1. PICK i \in Waiting : Waiting' = Waiting \ {i} /\ InHand' = InHand \cup {i}
                             /\ UNCHANGED <<done, Failed, Verdict>>
    BY <1>7, TakeOrderly
  <2>2. i \in Item
    <3>1. Requested \in Seq(Targets) /\ Roots \subseteq Targets
      BY RequestedOnce, LenProperties DEF Roots
    <3>2. RootItems \subseteq Item
      BY <3>1 DEF RootItems, Item
    <3>3. Queued \subseteq Item
      BY LenProperties DEF Queued, Sound, Typed, PoolTypeOK
    <3> QED BY <3>2, <3>3 DEF Waiting
  <2>3. Batch!Begin(i)
    BY <2>1 DEF Batch!Begin, Waiting, Failed, Verdict
  <2> QED BY <1>7, <2>2, <2>3, TakeOrderly DEF Batch!BatchNext
<1>8. ASSUME NEW w \in Workers, Commit(w) PROVE Orderly' /\ [Batch!BatchNext]_(Batch!batchVars)
  <2>1. item[w] \in Item
    BY <1>8 DEF Commit, Sound, Typed, BusyWorkers, Busy, Known
  <2>2. PICK i \in Item : i = item[w]
    BY <2>1
  <2>3. Batch!Complete(i)
    BY <1>8, <2>2, CommitOrderly DEF Batch!Complete, Waiting, Failed, Verdict
  <2>4. Batch!BatchNext
    BY <2>3 DEF Batch!BatchNext
  <2> QED BY <1>8, <2>4, CommitOrderly
<1>9. ASSUME NEW w \in Workers, Quit(w) \/ Leave(w) \/ FallAsleep(w) \/ Sleep(w) \/ Work(w) \/ Announce(w)
      PROVE Orderly' /\ Kept
  <2>1. UNCHANGED <<status, queue, scheduled, complete, cancel, item, done, failures>>
    BY <1>9 DEF Quit, Leave, FallAsleep, Sleep, Work, Announce
  <2>2. PICK label \in Labels :
           /\ pc' = [pc EXCEPT ![w] = label] \/ pc' = [Notified EXCEPT ![w] = label]
           /\ label \in Busy <=> w \in BusyWorkers
           /\ label \in {"quit", "done"} => pc[w] = "quit" \/ cancel \/ complete
    BY <1>9 DEF Quit, Leave, FallAsleep, Sleep, Work, Announce, Goto, Labels, Busy, BusyWorkers
  <2>3. BusyWorkers' = BusyWorkers
    BY <2>2, BusyStays DEF Sound
  <2>4. /\ pc'[w] = label
        /\ \A v \in Workers \ {w} : pc'[v] = pc[v] \/ (pc[v] = "waiting" /\ pc'[v] = "take")
    BY <2>2, Others DEF Sound
  <2> QED BY <1>2, <2>1, <2>2, <2>3, <2>4
<1>10. ASSUME NEW w \in Workers, Worker(w) PROVE Orderly' /\ [Batch!BatchNext]_(Batch!batchVars)
  BY <1>0, <1>7, <1>8, <1>9, <1>10 DEF Worker
<1> QED BY <1>0, <1>3, <1>4, <1>5, <1>6, <1>10 DEF PoolNext

\* The pool implements its abstract specification, whatever the number of workers and
\* wherever an interrupt falls: nothing is regenerated twice, nothing is left out of an
\* answer other than 130, and the answer tells of every failure.
THEOREM PoolKeepsItsPromise == PoolSpec => KeepsItsPromise
<1>1. PoolInit => Batch!BatchInit
  BY DEF PoolInit, Batch!BatchInit, InHand, BusyWorkers, Busy, Idle
<1>2. PoolInit => Sound /\ Orderly
  BY SoundInit, OrderlyInit
<1>3. Sound /\ Orderly /\ [PoolNext]_poolVars => Sound' /\ Orderly' /\ [Batch!BatchNext]_(Batch!batchVars)
  BY SoundNext, OrderlyNext
<1> QED BY <1>1, <1>2, <1>3, PTL DEF PoolSpec, KeepsItsPromise, Batch!BatchSpec

-----------------------------------------------------------------------------
(* The pool inside the shell                                               *)

\* Who can wait for a dispatch.
Callers == caller \in Workers \cup {MainThread, Nobody}

LEMMA CallersNext == Callers /\ [Next]_vars => Callers'
<1> SUFFICES ASSUME Callers, [Next]_vars PROVE Callers'
  OBVIOUS
<1>1. caller' = caller \/ caller' \in Workers \cup {MainThread, Nobody}
  BY DEF Next, vars, StartBuiltin, MainAsks, AskDispatch, DispatchReturns, ShellStep, CommandStep, MainStep,
     SignalArrives, WorkerAsks, WorkerSteps
<1> QED BY <1>1 DEF Callers

\* What a step of the shell is to the pool.
LEMMA PoolSteps == Callers /\ [Next]_vars => [PoolNext]_poolVars
<1> SUFFICES ASSUME Callers, [Next]_vars PROVE [PoolNext]_poolVars
  OBVIOUS
<1>1. ASSUME UNCHANGED poolVars PROVE [PoolNext]_poolVars
  BY <1>1 DEF poolVars
<1>2. CASE UNCHANGED vars
  BY <1>1, <1>2 DEF vars
<1>3. CASE StartBuiltin
  BY <1>3 DEF StartBuiltin, PoolNext
<1>4. ASSUME NEW w \in Workers, NEW stop \in BOOLEAN, Answer(w, stop) PROVE PoolNext
  BY <1>4 DEF PoolNext
<1>5. ASSUME NEW stop \in BOOLEAN, Finish(stop) PROVE PoolNext
  BY <1>5 DEF PoolNext
<1>6. PICK asked \in BOOLEAN : asked = Stopping
  BY DEF Stopping
<1>7. PICK told \in BOOLEAN : told = (cancel \/ stack[2].int \/ stack[2].end)
  OBVIOUS
<1>8. CASE MainAsks
  <2>1. UNCHANGED poolVars \/ Finish(asked)
    BY <1>6, <1>8 DEF MainAsks, AskDispatch, Finish
  <2> QED BY <1>1, <1>5, <2>1
<1>9. CASE DispatchReturns
  <2>1. PICK w : w = caller
    OBVIOUS
  <2>2. CASE w = MainThread
    <3>1. Finish(told)
      BY <1>7, <1>9, <2>1, <2>2 DEF DispatchReturns, Finish
    <3> QED BY <1>5, <3>1
  <2>3. CASE w /= MainThread
    <3>1. w \in Workers
      BY <1>9, <2>1, <2>3 DEF DispatchReturns, Awaited, Callers
    <3>2. Answer(w, told)
      BY <1>7, <1>9, <2>1, <2>3 DEF DispatchReturns, Answer, Goto
    <3> QED BY <1>4, <3>1, <3>2
  <2> QED BY <2>2, <2>3
<1>10. CASE ShellStep \/ CommandStep \/ MainStep \/ SignalArrives
  BY <1>1, <1>10 DEF ShellStep, CommandStep, MainStep, SignalArrives
<1>11. ASSUME NEW w \in Workers, WorkerAsks(w) PROVE [PoolNext]_poolVars
  <2>1. UNCHANGED poolVars \/ Answer(w, asked)
    BY <1>6, <1>11 DEF WorkerAsks, AskDispatch, Answer, Goto
  <2> QED BY <1>1, <1>4, <2>1
<1>12. ASSUME NEW w \in Workers, WorkerSteps(w) PROVE PoolNext
  BY <1>12 DEF WorkerSteps, PoolNext
<1> QED BY <1>2, <1>3, <1>8, <1>9, <1>10, <1>11, <1>12 DEF Next

\* Every behaviour of the shell is a behaviour of its pool: workers that dispatch for
\* main, traps that run on their threads and exits in a trap show the pool nothing but
\* an answer (check_for_interrupt).
THEOREM ShellRunsThePool == Spec => PoolSpec
<1>1. Init => Callers /\ PoolInit
  BY DEF Init, Callers
<1> QED BY <1>1, CallersNext, PoolSteps, PTL DEF Spec, PoolSpec

\* What is proved of the pool alone holds in the shell: nobody sleeps for good, the pool
\* declares itself complete only when it is, and the answer of the builtin is true.
THEOREM PoolInTheShell == Spec => []WaiterHasHope /\ []NoEarlyStop /\ KeepsItsPromise
BY ShellRunsThePool, NobodySleepsForGood, PoolStopsLate, PoolKeepsItsPromise, PTL

-----------------------------------------------------------------------------
(* The frames of the builtin: what the pool and the dispatches share *)

\* While the builtin runs its frame stays at the bottom of the stack.  When nobody waits
\* for a dispatch it is alone there; when somebody does, that dispatch is the next frame.
BuiltinFrames ==
    /\ ~Building => caller = Nobody
    /\ Building => stack /= <<>> /\ stack[1].kind = "body"
    /\ Building /\ caller = Nobody => Len(stack) = 1 /\ installing = NoSignal
    /\ Building /\ caller /= Nobody => Len(stack) >= 2 /\ stack[2].kind = "dispatch"

\* No frame leaves the stack, and none becomes another kind of frame.
Keeps(frames, frames2) ==
    /\ frames2 \in Seq(Frames) /\ Len(frames2) >= Len(frames)
    /\ \A i \in DOMAIN frames : frames2[i].kind = frames[i].kind

LEMMA KeepsOn ==
    ASSUME NEW frames \in Seq(Frames), NEW frames2, NEW frames3, Keeps(frames, frames2), Keeps(frames2, frames3)
    PROVE  Keeps(frames, frames3)
<1>1. Len(frames) \in Nat /\ DOMAIN frames = 1 .. Len(frames)
  OBVIOUS
<1>2. frames2 \in Seq(Frames) /\ frames3 \in Seq(Frames) /\ Len(frames2) >= Len(frames) /\ Len(frames3) >= Len(frames2)
  BY DEF Keeps
<1>3. Len(frames2) \in Nat /\ DOMAIN frames2 = 1 .. Len(frames2) /\ Len(frames3) \in Nat
  BY <1>2
<1>4. Len(frames3) >= Len(frames) /\ DOMAIN frames \subseteq DOMAIN frames2
  BY <1>1, <1>2, <1>3
<1> QED BY <1>2, <1>4 DEF Keeps

LEMMA AppendFrames ==
    ASSUME NEW frames \in Seq(Frames), NEW f \in Frames
    PROVE  /\ Append(frames, f) \in Seq(Frames) /\ Len(Append(frames, f)) = Len(frames) + 1
           /\ Append(frames, f)[Len(frames) + 1] = f
           /\ \A i \in DOMAIN frames : Append(frames, f)[i] = frames[i]
OBVIOUS

LEMMA AppendKeeps == ASSUME NEW frames \in Seq(Frames), NEW f \in Frames PROVE Keeps(frames, Append(frames, f))
<1>1. Len(frames) \in Nat
  OBVIOUS
<1> QED BY <1>1, AppendFrames DEF Keeps

LEMMA BecomeKeeps ==
    ASSUME stack \in Seq(Frames), stack /= <<>>, NEW f \in Frames, f.kind = Top.kind
    PROVE  Keeps(stack, Become(f))
<1> DEFINE new == Become(f)
<1>1. new \in Seq(Frames) /\ Len(new) = Len(stack) /\ Len(stack) \in Nat
  BY DEF Become
<1>2. new[Len(stack)] = f /\ \A i \in DOMAIN stack : i /= Len(stack) => new[i] = stack[i]
  BY LastBecomes DEF Become
<1> HIDE DEF new
<1>3. \A i \in DOMAIN stack : new[i].kind = stack[i].kind
  BY <1>2 DEF Top
<1> QED BY <1>1, <1>3 DEF Keeps, new

LEMMA StepKeeps ==
    ASSUME stack \in Seq(Frames), Running("body"), NEW to \in {"before", "command", "after", "end"}
    PROVE  Keeps(stack, Become([Top EXCEPT !.step = to]))
<1> DEFINE f == [Top EXCEPT !.step = to]
<1>1. Top \in Bodies /\ stack /= <<>>
  BY RunningBody
<1>2. f \in Bodies
  BY <1>1, StepKeepsBody
<1>3. f \in Frames /\ f.kind = Top.kind
  BY <1>1, <1>2 DEF Frames, Bodies
<1> HIDE DEF f
<1> QED BY <1>1, <1>3, BecomeKeeps DEF f

LEMMA PollKeeps == ASSUME NEW frames \in Seq(Frames), Poll(frames) PROVE Keeps(frames, stack')
<1>1. Keeps(frames, frames)
  <2>1. Len(frames) \in Nat
    OBVIOUS
  <2> QED BY <2>1 DEF Keeps
<1>2. Keeps(frames, Append(frames, Dispatch))
  BY AppendKeeps, NewFrames
<1> QED BY <1>1, <1>2 DEF Poll, StartDispatch

LEMMA ReadFlagKeeps == ASSUME OneTrap, ReadFlag PROVE Keeps(stack, stack')
<1> DEFINE next == [Top EXCEPT !.left = Tail(@)]
           ended == [next EXCEPT !.end = TRUE]
           interrupted == [next EXCEPT !.int = TRUE]
<1>1. stack \in Seq(Frames) /\ Top \in Dispatches /\ stack /= <<>> /\ Top.left /= <<>>
  BY RunningDispatch DEF OneTrap, ReadFlag
<1>2. Tail(Top.left) \in Seq(Reads) /\ Head(Top.left) \in Reads
  BY <1>1 DEF Dispatches
<1>3. next \in Dispatches /\ ended \in Dispatches /\ interrupted \in Dispatches
  BY <1>1, <1>2 DEF Dispatches
<1>4. ASSUME NEW f \in Dispatches PROVE Keeps(stack, Become(f)) /\ Become(f) \in Seq(Frames)
  <2>1. f \in Frames /\ f.kind = Top.kind
    BY <1>1 DEF Frames, Dispatches
  <2> QED BY <1>1, <2>1, BecomeKeeps DEF Keeps
<1>5. \/ \E s \in Reads : RunTrap(s, next)
      \/ \E f \in {next, ended, interrupted} : stack' = Become(f)
  <2>1. Head(Top.left) \in Reads /\ "INT" \in Reads
    BY <1>2 DEF Reads
  <2> QED BY <2>1 DEF ReadFlag
<1> HIDE DEF next, ended, interrupted
<1>6. ASSUME NEW s \in Reads, RunTrap(s, next) PROVE Keeps(stack, stack')
  <2>1. CASE TrapDue(s)
    <3>1. s \in Signals
      BY <2>1 DEF TrapDue, OneTrap, Reads
    <3>2. Body(s) \in Frames
      BY <3>1, NewFrames
    <3>3. stack' = Append(Become(next), Body(s))
      BY <1>6, <2>1 DEF RunTrap
    <3>4. Keeps(Become(next), stack')
      BY <1>3, <1>4, <3>2, <3>3, AppendKeeps
    <3> QED BY <1>1, <1>3, <1>4, <3>4, KeepsOn
  <2>2. CASE ~TrapDue(s)
    BY <1>3, <1>4, <1>6, <2>2 DEF RunTrap
  <2> QED BY <2>1, <2>2
<1> QED BY <1>3, <1>4, <1>5, <1>6

\* What the shell does in its own frames: they are kept, or the top one is done.
LEMMA ShellKeeps ==
    ASSUME OneTrap, Shell
    PROVE  \/ Keeps(stack, stack')
           \/ /\ stack /= <<>> /\ stack' = Pop
              /\ Top.kind = "body" \/ (Top.kind = "dispatch" /\ Top.left = <<>>)
<1>1. CASE FinishInstall
  <2>1. Running("body") /\ stack \in Seq(Frames) /\ Step("after")
    BY <1>1 DEF FinishInstall, OneTrap
  <2> QED BY <2>1, StepKeeps DEF Step
<1>2. ASSUME NEW from, NEW to \in {"before", "command", "after", "end"}, PollAround(from, to)
      PROVE  Keeps(stack, stack')
  <2> DEFINE at == Become([Top EXCEPT !.step = to])
  <2>1. at \in Seq(Frames) /\ Keeps(stack, at)
    BY <1>2, StepKeeps DEF OneTrap, PollAround, Keeps
  <2>2. Poll(at)
    BY <1>2 DEF PollAround
  <2> HIDE DEF at
  <2>3. Keeps(at, stack')
    BY <2>1, <2>2, PollKeeps
  <2> QED BY <2>1, <2>3, KeepsOn DEF OneTrap
<1>3. CASE EndDispatch \/ EndBody
  BY <1>3 DEF EndDispatch, Return, EndBody, Running
<1> QED BY <1>1, <1>2, <1>3, ReadFlagKeeps DEF Shell, PollBefore, PollAfter

LEMMA CommandKeeps == ASSUME OneTrap, Command PROVE Keeps(stack, stack')
<1>1. Running("body")
  BY DEF Command, PlainCommand, ExitCommand, SetTrap, ResetTrap, IgnoreSignal, AtCommand
<1>2. Step("after") \/ UNCHANGED stack
  BY DEF Command, PlainCommand, EndCommand, ExitCommand, SetTrap, ResetTrap, IgnoreSignal
<1>3. Keeps(stack, stack)
  BY DEF OneTrap, Keeps
<1> QED BY <1>1, <1>2, <1>3, StepKeeps DEF Step, OneTrap

\* Frames that are kept leave the builtin where it is.
LEMMA BuiltinKept ==
    ASSUME OneTrap, BuiltinFrames, Keeps(stack, stack'), UNCHANGED <<status, caller>>,
           Building => caller /= Nobody
    PROVE  BuiltinFrames'
<1>1. CASE ~Building
  BY <1>1 DEF BuiltinFrames, Building
<1>2. CASE Building
  <2>1. stack \in Seq(Frames) /\ stack' \in Seq(Frames) /\ Len(stack') >= Len(stack) /\ Len(stack) >= 2
        /\ stack[1].kind = "body" /\ stack[2].kind = "dispatch"
    BY <1>2 DEF OneTrap, BuiltinFrames, Keeps
  <2>2. 1 \in DOMAIN stack /\ 2 \in DOMAIN stack /\ Len(stack') >= 2 /\ stack' /= <<>>
    BY <2>1
  <2>3. stack'[1].kind = "body" /\ stack'[2].kind = "dispatch"
    BY <2>1, <2>2 DEF Keeps
  <2> QED BY <1>2, <2>2, <2>3 DEF BuiltinFrames, Building
<1> QED BY <1>1, <1>2

\* A frame on top of the builtin and of the dispatch somebody waits for leaves.
LEMMA BuiltinPopped ==
    ASSUME OneTrap, BuiltinFrames, stack /= <<>>, stack' = Pop, UNCHANGED <<status, caller>>,
           Building => Len(stack) /= 1 /\ Len(stack) /= 2
    PROVE  BuiltinFrames'
<1>1. CASE ~Building
  BY <1>1 DEF BuiltinFrames, Building
<1>2. CASE Building
  <2> DEFINE less == Pop
  <2>1. stack \in Seq(Frames) /\ Len(stack) \in Nat /\ Len(stack) >= 3
    <3>1. stack \in Seq(Frames)
      BY DEF OneTrap
    <3>2. Len(stack) \in Nat /\ Len(stack) /= 0
      BY <3>1
    <3>3. Len(stack) /= 1 /\ Len(stack) /= 2
      BY <1>2
    <3>4. \A n \in Nat : n /= 0 /\ n /= 1 /\ n /= 2 => n >= 3
      OBVIOUS
    <3> QED BY <3>1, <3>2, <3>3, <3>4
  <2>2. Len(less) = Len(stack) - 1 /\ less[1] = stack[1] /\ less[2] = stack[2] /\ less \in Seq(Frames)
    BY <2>1 DEF Pop
  <2>3. caller /= Nobody
    BY <1>2, <2>1 DEF BuiltinFrames
  <2> HIDE DEF less
  <2>4. less /= <<>> /\ Len(less) >= 2
    BY <2>1, <2>2
  <2> QED BY <1>2, <2>2, <2>3, <2>4 DEF BuiltinFrames, Building, less
<1> QED BY <1>1, <1>2

\* The builtin, or a worker of it, begins to wait for a dispatch.
LEMMA BuiltinAsks ==
    ASSUME OneTrap, BuiltinFrames, Building, NEW who, who /= Nobody, AskDispatch(who)
    PROVE  BuiltinFrames'
<1>1. stack \in Seq(Frames) /\ stack /= <<>> /\ stack[1].kind = "body" /\ Len(stack) = 1
      /\ stack' = Append(stack, Dispatch) /\ caller' = who /\ UNCHANGED status
  BY DEF OneTrap, BuiltinFrames, AskDispatch, StartDispatch, poolVars
<1> DEFINE d == Dispatch
<1>2. d \in Frames /\ d.kind = "dispatch"
  BY NewFrames DEF Dispatch
<1> HIDE DEF d
<1>3. stack' = Append(stack, d)
  BY <1>1 DEF d
<1>4. Len(stack') = 2 /\ stack'[1] = stack[1] /\ stack'[2] = d /\ stack' /= <<>>
  <2>1. stack \in Seq(Frames) /\ Len(stack) = 1 /\ 1 \in DOMAIN stack
    BY <1>1
  <2>2. Append(stack, d) \in Seq(Frames) /\ Len(Append(stack, d)) = 2
        /\ Append(stack, d)[1] = stack[1] /\ Append(stack, d)[2] = d
    <3>1. /\ Append(stack, d) \in Seq(Frames) /\ Len(Append(stack, d)) = Len(stack) + 1
          /\ Append(stack, d)[Len(stack) + 1] = d
          /\ Append(stack, d)[1] = stack[1]
      BY <1>2, <2>1, AppendFrames
    <3>4. Len(stack) + 1 = 2
      BY <2>1
    <3> QED BY <3>1, <3>4
  <2>3. Append(stack, d) /= <<>>
    BY <2>2
  <2> QED BY <1>3, <2>2, <2>3
<1> QED BY <1>1, <1>2, <1>4 DEF BuiltinFrames, Building

LEMMA BuiltinFramesNext == ASSUME OneTrap, IdleAtRelease, BuiltinFrames, [Next]_vars PROVE BuiltinFrames'
<1>0. ASSUME UNCHANGED <<stack, installing, status, caller>> PROVE BuiltinFrames'
  BY <1>0 DEF BuiltinFrames, Building
<1>1. CASE UNCHANGED vars
  BY <1>0, <1>1 DEF vars, signalVars, poolVars, trapVars
<1>2. CASE StartBuiltin
  <2>1. ~Building
    BY <1>2 DEF StartBuiltin, Launch, Building, Idle
  <2>2. stack /= <<>> /\ Len(stack) = 1 /\ stack[1].kind = "body" /\ installing = NoSignal
        /\ UNCHANGED <<stack, installing, caller>>
    BY <1>2 DEF StartBuiltin, AtCommand, Running, Top, signalVars, trapVars
  <2> QED BY <2>1, <2>2 DEF BuiltinFrames, Building
<1>3. CASE MainAsks
  <2>1. CASE AskDispatch(MainThread)
    BY <1>3, <2>1, BuiltinAsks DEF MainAsks, Joined, Building, MainThread, Nobody
  <2>2. CASE Finish(Stopping) /\ UNCHANGED caller
    <3>1. status' /= "running" /\ caller' = Nobody
      BY <1>3, <2>2 DEF MainAsks, Finish
    <3> QED BY <3>1 DEF BuiltinFrames, Building
  <2> QED BY <1>3, <2>1, <2>2 DEF MainAsks
<1>4. CASE DispatchReturns
  <2>1. Awaited /\ caller' = Nobody
    BY <1>4 DEF DispatchReturns
  <2>2. CASE caller = MainThread
    <3>1. status' /= "running"
      BY <1>4, <2>2 DEF DispatchReturns, Finish
    <3> QED BY <2>1, <3>1 DEF BuiltinFrames, Building
  <2>3. CASE caller /= MainThread
    <3>1. UNCHANGED status /\ EndDispatch
      BY <1>4, <2>3 DEF DispatchReturns, Answer
    <3>2. CASE ~Building
      BY <2>1, <3>1, <3>2 DEF BuiltinFrames, Building
    <3>3. CASE Building
      <4> DEFINE less == Pop
      <4>1. stack \in Seq(Frames) /\ Len(stack) = 2 /\ stack[1].kind = "body" /\ stack' = less
            /\ Running("dispatch") /\ UNCHANGED installing
        BY <2>1, <3>1, <3>3 DEF OneTrap, Awaited, BuiltinFrames, EndDispatch, Return, trapVars
      <4>2. installing = NoSignal
        BY <4>1 DEF OneTrap, Running
      <4>3. Len(less) = 1 /\ less[1] = stack[1] /\ less \in Seq(Frames)
        BY <4>1 DEF Pop
      <4> HIDE DEF less
      <4>4. less /= <<>>
        BY <4>3
      <4> QED BY <2>1, <3>1, <4>1, <4>2, <4>3, <4>4 DEF BuiltinFrames, Building
    <3> QED BY <3>2, <3>3
  <2> QED BY <2>2, <2>3
<1>5. CASE ShellStep
  <2>1. Shell /\ Free /\ UNCHANGED <<status, caller>>
    BY <1>5 DEF ShellStep, poolVars
  <2>2. Building => caller /= Nobody
    BY <2>1 DEF Free, BuiltinFrames
  <2>3. CASE Keeps(stack, stack')
    BY <2>1, <2>2, <2>3, BuiltinKept
  <2>4. CASE /\ stack /= <<>> /\ stack' = Pop
             /\ Top.kind = "body" \/ (Top.kind = "dispatch" /\ Top.left = <<>>)
    <3>1. Building => Len(stack) /= 1
      BY <2>1 DEF Free
    <3>2. Building => Len(stack) /= 2
      BY <2>1, <2>2, <2>4 DEF Free, Awaited, BuiltinFrames, Top
    <3> QED BY <2>1, <2>4, <3>1, <3>2, BuiltinPopped
  <2> QED BY <2>1, <2>3, <2>4, ShellKeeps
<1>6. CASE CommandStep
  <2>1. Command /\ Free /\ UNCHANGED <<status, caller>>
    BY <1>6 DEF CommandStep, poolVars
  <2>2. Building => caller /= Nobody
    BY <2>1 DEF Free, BuiltinFrames
  <2> QED BY <2>1, <2>2, BuiltinKept, CommandKeeps
<1>7. CASE MainStep
  <2>1. UNCHANGED <<status, caller>>
    BY <1>7 DEF MainStep, poolVars
  <2>2. CASE ~Building
    BY <2>1, <2>2 DEF BuiltinFrames, Building
  <2>3. CASE stack = <<>>
    <3>1. ~Building
      BY <2>3 DEF BuiltinFrames
    <3> QED BY <2>2, <3>1
  <2>4. CASE Die
    BY <1>0, <2>1, <2>4 DEF Die, trapVars
  <2>5. stack = <<>> \/ Die
    BY <1>7 DEF MainStep, Main, Loop, Shutdown, LoopPolls, Woken, LeaveLoop, RunLine, EndOfInput, AtLoop,
       BeginShutdown, RunExitHandlers, FinishShutdown, IdleAtRelease
  <2> QED BY <2>3, <2>4, <2>5
<1>8. CASE SignalArrives
  BY <1>0, <1>8 DEF SignalArrives, Environment, Arrive, Release, trapVars, poolVars
<1>9. ASSUME NEW w \in Workers, WorkerAsks(w) PROVE BuiltinFrames'
  <2>1. CASE AskDispatch(w)
    BY <1>9, <2>1, BuiltinAsks, ThreadNames DEF WorkerAsks
  <2>2. CASE Answer(w, Stopping) /\ UNCHANGED <<signalVars, caller>>
    BY <1>0, <2>2 DEF Answer, signalVars, trapVars
  <2> QED BY <1>9, <2>1, <2>2 DEF WorkerAsks
<1>10. ASSUME NEW w \in Workers, WorkerSteps(w) PROVE BuiltinFrames'
  BY <1>0, <1>10 DEF WorkerSteps, Worker, Quit, Leave, Take, FallAsleep, Sleep, Work, Commit, Announce,
     signalVars, trapVars
<1> QED BY <1>1, <1>2, <1>3, <1>4, <1>5, <1>6, <1>7, <1>8, <1>9, <1>10 DEF Next

-----------------------------------------------------------------------------
(* What the dispatcher promises, of the shell in which workers dispatch *)

\* The three things the pool makes of a step that the shell alone does not: a thread asks
\* for a dispatch beside the frame of the builtin, one made for main ends the command, and
\* the command ends although the exit flag is set.
Asked == /\ StartDispatch(stack) /\ installing = NoSignal /\ stack /= <<>>
         /\ UNCHANGED <<received, held, arrivals, trapVars, exitVars, executing, polled, commands, owed>>
ReturnedToMain ==
    /\ Running("dispatch") /\ Top.left = <<>> /\ Len(stack) = 2 /\ stack[1].kind = "body"
    /\ stack' = <<[stack[1] EXCEPT !.step = "after"]>>
    /\ UNCHANGED <<kernelVars, trapVars, exitVars, executing, polled, commands, owed>>
Extra == Asked \/ ReturnedToMain \/ EndCommand

LEMMA SignalSteps == ASSUME BuiltinFrames, [Next]_vars PROVE [SignalNext]_signalVars \/ Extra
<1>1. CASE UNCHANGED signalVars
  BY <1>1
<1>0. ~Gone \/ UNCHANGED signalVars
  BY DEF Next, vars
<1>2. ASSUME NEW who, Building, AskDispatch(who) PROVE Extra
  BY <1>2 DEF AskDispatch, Asked, BuiltinFrames, Extra
<1>3. CASE UNCHANGED vars \/ StartBuiltin
  BY <1>1, <1>3 DEF vars, StartBuiltin
<1>4. CASE MainAsks
  BY <1>2, <1>4 DEF MainAsks, Joined, Building, Extra
<1>5. CASE DispatchReturns
  <2>1. Awaited
    BY <1>5 DEF DispatchReturns
  <2>2. CASE caller = MainThread
    <3>1. Return(<<[stack[1] EXCEPT !.step = "after"]>>) /\ Building
      BY <1>5, <2>2 DEF DispatchReturns, Finish, Joined, Building
    <3>2. stack[1].kind = "body"
      BY <3>1 DEF BuiltinFrames
    <3> QED BY <2>1, <3>1, <3>2 DEF Return, ReturnedToMain, Awaited, Extra
  <2>3. CASE caller /= MainThread
    <3>1. EndDispatch
      BY <1>5, <2>3 DEF DispatchReturns
    <3> QED BY <1>0, <1>1, <3>1 DEF SignalNext, Shell
  <2> QED BY <2>2, <2>3
<1>6. CASE ShellStep \/ CommandStep \/ MainStep \/ SignalArrives
  BY <1>0, <1>1, <1>6 DEF SignalNext, ShellStep, CommandStep, MainStep, SignalArrives
<1>7. ASSUME NEW w \in Workers, WorkerAsks(w) PROVE [SignalNext]_signalVars \/ Extra
  BY <1>1, <1>2, <1>7 DEF WorkerAsks
<1>8. ASSUME NEW w \in Workers, WorkerSteps(w) PROVE UNCHANGED signalVars
  BY <1>8 DEF WorkerSteps
<1> QED BY <1>1, <1>3, <1>4, <1>5, <1>6, <1>7, <1>8 DEF Next

LEMMA AskedKeeps ==
    ASSUME OneTrap, IdleAtRelease, OwedObserved, InSight, Asked
    PROVE  OneTrap' /\ IdleAtRelease' /\ OwedObserved' /\ InSight'
<1>1. stack \in Seq(Frames) /\ Dispatch \in Frames /\ ~IsTrap(Dispatch) /\ LastRead(Dispatch)
  BY NewFrames, DispatchInOrder DEF OneTrap
<1> DEFINE d == Dispatch
<1>2. stack' = Append(stack, d) /\ d \in Frames /\ ~IsTrap(d) /\ LastRead(d)
  BY <1>1 DEF Asked, StartDispatch
<1> HIDE DEF d
<1>3. stack' \in Seq(Frames) /\ TrapsOf(stack') = TrapsOf(stack)
  BY <1>1, <1>2, AppendTraps
<1>4. Moves(stack, stack', NoSignal)
  BY <1>1, <1>2, AppendMoves
<1>5. /\ UNCHANGED <<received, phase, death, owed, disposition, observed, traps, installing, executing>>
      /\ installing = NoSignal
  BY DEF Asked, exitVars, trapVars
<1>6. OneTrap'
  BY <1>3, <1>5 DEF OneTrap
<1>7. IdleAtRelease' /\ OwedObserved'
  BY <1>5 DEF Asked, IdleAtRelease, OwedObserved
<1>8. InSight'
  BY <1>4, <1>5, QuietInSight DEF InSight, DispositionOK
<1> QED BY <1>6, <1>7, <1>8

\* The command that asked for the pool ends with the last dispatch made for it.
LEMMA ReturnedKeeps ==
    ASSUME OneTrap, IdleAtRelease, OwedObserved, InSight, ReturnedToMain
    PROVE  OneTrap' /\ IdleAtRelease' /\ OwedObserved' /\ InSight'
<1> DEFINE f == [stack[1] EXCEPT !.step = "after"]
<1>1. stack \in Seq(Frames) /\ stack[1] \in Frames /\ stack[1].kind = "body" /\ Top = stack[2]
      /\ DOMAIN stack = {1, 2} /\ stack[2] \in Frames /\ stack[2].kind = "dispatch"
  <2>1. stack \in Seq(Frames) /\ Len(stack) = 2
    BY DEF OneTrap, ReturnedToMain
  <2>2. DOMAIN stack = 1 .. 2
    BY <2>1
  <2>3. \A i \in DOMAIN stack : stack[i] \in Frames
    BY <2>1
  <2> QED BY <2>1, <2>2, <2>3 DEF ReturnedToMain, Running, Top
<1>2. stack[1] \in Bodies
  BY <1>1, FrameKinds
<1>3. f \in Bodies /\ (IsTrap(f) <=> IsTrap(stack[1]))
  BY <1>2, StepKeepsBody
<1>4. f \in Frames /\ f.kind = "body" /\ LastRead(f) /\ \A s : ~WillRead(f, s)
  BY <1>3 DEF Frames, Bodies, LastRead, WillRead
<1>5. stack' = Append(<<>>, f)
  BY DEF ReturnedToMain
<1> HIDE DEF f
<1>6. stack' \in Seq(Frames) /\ DOMAIN stack' = {1} /\ stack'[1] = f
  BY <1>4, <1>5
<1>7. TrapsOf(stack') = TrapsOf(stack)
  <2>1. ~IsTrap(stack[2])
    BY <1>1 DEF IsTrap
  <2> QED BY <1>1, <1>3, <1>6, <2>1 DEF TrapsOf
<1>8. Moves(stack, stack', NoSignal)
  <2>1. InOrder(stack')
    BY <1>4, <1>6 DEF InOrder
  <2>2. Served(stack)
    BY <1>1 DEF Served, StillToServe, ReturnedToMain
  <2>3. \A s : ~BottomReads(stack, s)
    BY <1>1 DEF BottomReads, WillRead
  <2> QED BY <2>1, <2>2, <2>3 DEF Moves
<1>9. /\ UNCHANGED <<received, phase, death, owed, disposition, observed, traps, installing, executing>>
  BY DEF ReturnedToMain, kernelVars, exitVars, trapVars
<1>10. installing = NoSignal
  BY DEF OneTrap, ReturnedToMain, Running
<1>11. OneTrap'
  BY <1>6, <1>7, <1>9, <1>10 DEF OneTrap
<1>12. IdleAtRelease' /\ OwedObserved'
  <2>1. stack /= <<>>
    BY DEF ReturnedToMain, Running
  <2> QED BY <1>9, <2>1 DEF IdleAtRelease, OwedObserved
<1>13. InSight'
  BY <1>8, <1>9, QuietInSight DEF InSight, DispositionOK
<1> QED BY <1>11, <1>12, <1>13

LEMMA EndedKeeps ==
    ASSUME OneTrap, IdleAtRelease, OwedObserved, InSight, EndCommand
    PROVE  OneTrap' /\ IdleAtRelease' /\ OwedObserved' /\ InSight'
<1>1. Running("body") /\ Step("after") /\ stack /= <<>>
      /\ UNCHANGED <<received, phase, death, owed, disposition, observed, traps, executing>>
  BY DEF EndCommand, Running, kernelVars, exitVars, trapVars
<1>2. OneTrap'
  BY <1>1, OneTrapStep DEF OneTrap
<1>3. IdleAtRelease' /\ OwedObserved'
  BY <1>1 DEF IdleAtRelease, OwedObserved
<1>4. InSight'
  BY <1>1, StepInSight DEF InSight, DispositionOK
<1> QED BY <1>2, <1>3, <1>4

ShellSound == OneTrap /\ IdleAtRelease /\ OwedObserved /\ InSight /\ BuiltinFrames

LEMMA ShellSoundInit == Init => ShellSound
<1> SUFFICES ASSUME Init PROVE ShellSound
  OBVIOUS
<1>1. OneTrap /\ IdleAtRelease /\ OwedObserved /\ InSight
  BY OneTrapInit, OwedObservedInit, InSightInit, ProfilesTrapped DEF Init, SignalInit, IdleAtRelease
<1>2. BuiltinFrames
  BY DEF Init, PoolInit, BuiltinFrames, Building, Idle
<1> QED BY <1>1, <1>2 DEF ShellSound

LEMMA ShellSoundNext == ShellSound /\ [Next]_vars => ShellSound'
<1> SUFFICES ASSUME OneTrap, IdleAtRelease, OwedObserved, InSight, BuiltinFrames, [Next]_vars PROVE ShellSound'
  BY DEF ShellSound
<1>1. BuiltinFrames'
  BY BuiltinFramesNext
<1>2. CASE [SignalNext]_signalVars
  BY <1>1, <1>2, OneTrapNext, IdleAtReleaseNext, OwedObservedNext, InSightNext DEF ShellSound
<1>3. CASE Extra
  BY <1>1, <1>3, AskedKeeps, ReturnedKeeps, EndedKeeps DEF Extra, ShellSound
<1> QED BY <1>2, <1>3, SignalSteps

LEMMA ShellInvariant == Spec => []ShellSound
BY ShellSoundInit, ShellSoundNext, PTL DEF Spec

\* Workers that dispatch for the main thread, and the traps that run on their threads,
\* forget no trap that is due (process_pending_signals, check_for_interrupt).
THEOREM OwedAlwaysKeptInTheShell == Spec => []OwedKept
<1>1. ShellSound => OwedKept
  BY InSightIsKept DEF ShellSound
<1> QED BY <1>1, ShellInvariant, PTL

\* Traps do not nest either when another thread asks for the dispatch
\* (process_trapped_signal).
THEOREM TrapsNeverNestInTheShell == Spec => []TrapsDoNotNest
<1>1. ShellSound => TrapsDoNotNest
  BY DEF ShellSound, OneTrap, TrapsDoNotNest, TrapBodies, TrapsOf
<1> QED BY <1>1, ShellInvariant, PTL

\* Shutdown of a shell that has run the pool sees every termination request
\* (cleanup_resources).
THEOREM ShutdownSeesAllInTheShell == Spec => []ShutdownSeesAll
<1>1. ShellSound => ShutdownSeesAll
  BY InSightIsKept DEF ShellSound
<1> QED BY <1>1, ShellInvariant, PTL

\* A signal whose trap is due never becomes the reason to terminate, whoever dispatches it
\* (docs/reference/hooks.md:162).
THEOREM TrappedSignalSparesInTheShell == Spec => TrappedSignalSpares
<1>1. ShellSound /\ [Next]_vars => [termination' /= termination => termination' \notin owed]_signalVars
  <2> SUFFICES ASSUME OwedObserved, BuiltinFrames, [Next]_vars, termination' /= termination
               PROVE  termination' \notin owed
    BY DEF ShellSound, signalVars
  <2>1. ~Extra
    BY DEF Extra, Asked, ReturnedToMain, EndCommand, exitVars
  <2>2. [SignalNext]_signalVars
    BY <2>1, SignalSteps
  <2> QED BY <2>2, CauseIsUntrapped
<1> QED BY <1>1, ShellInvariant, PTL DEF Spec, TrappedSignalSpares
==============================================================================
