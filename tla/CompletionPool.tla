--------------------------- MODULE CompletionPool ---------------------------
(***************************************************************************)
(* The worker pool of generate-completions: the workers share a queue of   *)
(* commands whose completions are to be regenerated, discover further      *)
(* commands while they work, and stop together when an interrupt is seen   *)
(* or when the queue is empty and nobody can add to it any more            *)
(* (builtin/generate_completions_command.cpp).                             *)
(*                                                                         *)
(* cancel_requested is set without work_mutex, the condition variable is   *)
(* notified without it, and a waiter evaluates its predicate and goes to   *)
(* sleep in two steps: a notification may fall between them.               *)
(***************************************************************************)
EXTENDS Naturals, Sequences, FiniteSets

CONSTANTS
    Workers,    \* the threads: job_count of them
    Targets,    \* command names that can be asked for or discovered
    Requested,  \* options.targets, sorted and without repetition
    Outcomes,   \* what regenerating a command may result in
    Key(_)      \* string_utils::to_lower_copy

Item == [target : Targets, root : BOOLEAN]
Roots == {Requested[i] : i \in DOMAIN Requested}
RootItems == [target : Roots, root : {TRUE}]
Busy == {"work", "recheck", "commit"}
Idle == "idle"

ASSUME WorkersFinite == IsFiniteSet(Workers) /\ Workers /= {}
ASSUME RequestedOnce ==
    /\ Requested \in Seq(Targets) /\ Requested /= <<>>
    /\ \A i, j \in DOMAIN Requested : i /= j => Requested[i] /= Requested[j]

ASSUME OutcomesAreResults ==
    /\ Outcomes \subseteq [found : SUBSET Targets, generated : BOOLEAN]
    /\ \A outcome \in Outcomes : IsFiniteSet(outcome.found)

VARIABLES
    status,     \* the builtin: idle, running, and the exit code it returned
    queue,      \* pending_work
    scheduled,  \* scheduled_targets, as keys
    active,     \* active_workers
    complete,   \* work_complete
    cancel,     \* cancel_requested
    pc,         \* where each worker is in its loop
    item,       \* what it has taken from the queue
    result,     \* what the regeneration of it produced
    done,       \* ghost: items whose regeneration has been accounted for
    failures    \* roots that could not be generated

poolVars == <<status, queue, scheduled, active, complete, cancel, pc, item, result, done, failures>>

NoItem == [target |-> "none", root |-> FALSE]
NoResult == [found |-> {}, generated |-> FALSE]

BusyWorkers == {w \in Workers : pc[w] \in Busy}
Goto(w, label) == pc' = [pc EXCEPT ![w] = label]
\* A worker between its predicate and its sleep holds work_mutex.
LockFree == \A w \in Workers : pc[w] /= "falling"
Notified == [w \in Workers |-> IF pc[w] = "waiting" THEN "take" ELSE pc[w]]

-----------------------------------------------------------------------------
\* Every root is queued; two roots may have one key.
Launch ==
    /\ status = Idle
    /\ status' = "running"
    /\ queue' = [i \in DOMAIN Requested |-> [target |-> Requested[i], root |-> TRUE]]
    /\ scheduled' = {Key(t) : t \in Roots}
    /\ pc' = [w \in Workers |-> "poll"]
    /\ UNCHANGED <<active, complete, cancel, item, result, done, failures>>

\* check_for_interrupt has answered: a TRUE answer sets cancel_requested.
Answer(w, stop) ==
    /\ pc[w] \in {"poll", "recheck"}
    /\ cancel => stop
    /\ cancel' = stop
    /\ Goto(w, CASE pc[w] = "recheck" -> "commit"
                 [] pc[w] = "poll" -> IF stop THEN "quit" ELSE "take")
    /\ UNCHANGED <<status, queue, scheduled, active, complete, item, result, done, failures>>

\* notify_all on the way out of the loop.
Quit(w) ==
    /\ pc[w] = "quit"
    /\ pc' = [Notified EXCEPT ![w] = "done"]
    /\ UNCHANGED <<status, queue, scheduled, active, complete, cancel, item, result, done, failures>>

\* Under work_mutex: leave, take the front of the queue, or go to sleep.
Leave(w) ==
    /\ pc[w] = "take" /\ LockFree
    /\ cancel \/ complete
    /\ Goto(w, "done")
    /\ UNCHANGED <<status, queue, scheduled, active, complete, cancel, item, result, done, failures>>

Take(w) ==
    /\ pc[w] = "take" /\ LockFree
    /\ ~cancel /\ ~complete /\ queue /= <<>>
    /\ item' = [item EXCEPT ![w] = Head(queue)]
    /\ queue' = Tail(queue)
    /\ active' = active + 1
    /\ Goto(w, "work")
    /\ UNCHANGED <<status, scheduled, complete, cancel, result, done, failures>>

FallAsleep(w) ==
    /\ pc[w] = "take" /\ LockFree
    /\ ~cancel /\ ~complete /\ queue = <<>>
    /\ Goto(w, "falling")
    /\ UNCHANGED <<status, queue, scheduled, active, complete, cancel, item, result, done, failures>>

Sleep(w) ==
    /\ pc[w] = "falling"
    /\ Goto(w, "waiting")
    /\ UNCHANGED <<status, queue, scheduled, active, complete, cancel, item, result, done, failures>>

\* regenerate_external_completion_cache_target.
Work(w) ==
    /\ pc[w] = "work"
    /\ \E outcome \in Outcomes : result' = [result EXCEPT ![w] = outcome]
    /\ Goto(w, "recheck")
    /\ UNCHANGED <<status, queue, scheduled, active, complete, cancel, item, done, failures>>

\* Under work_mutex: queue what is new, and see whether this was the last worker.
\* An interrupted worker has set cancel_requested, so the one test covers both.
New(w) == IF cancel THEN {} ELSE {t \in result[w].found : Key(t) \notin scheduled}
Additions(w) ==
    {q \in UNION {[1 .. n -> [target : New(w), root : {FALSE}]] :
                     n \in {Cardinality({Key(t) : t \in New(w)})}} :
        \A i, j \in DOMAIN q : i /= j => Key(q[i].target) /= Key(q[j].target)}

\* mutants: the other workers are forgotten; the worker counts itself
EmptyQueue(q, n) == q = <<>>
AllButOne(q, n) == q = <<>> /\ n = 1
AllDone(q, n) == q = <<>> /\ n = 0

Commit(w) ==
    /\ pc[w] = "commit" /\ LockFree
    /\ \E more \in Additions(w) : queue' = queue \o more
    /\ scheduled' = scheduled \cup {Key(t) : t \in New(w)}
    /\ active' = active - 1
    /\ complete' = (complete \/ AllDone(queue', active'))
    /\ done' = done \cup {item[w]}
    /\ failures' = IF item[w].root /\ ~result[w].generated
                      THEN failures \cup {item[w].target} ELSE failures
    /\ item' = [item EXCEPT ![w] = NoItem]
    /\ result' = [result EXCEPT ![w] = NoResult]
    /\ Goto(w, "announce")
    /\ UNCHANGED <<status, cancel>>

\* mutant: nothing to take, so nobody is notified
AnnounceWork(w) ==
    /\ pc[w] = "announce"
    /\ pc' = [IF queue = <<>> THEN pc ELSE Notified EXCEPT ![w] = "poll"]
    /\ UNCHANGED <<status, queue, scheduled, active, complete, cancel, item, result, done, failures>>
Announce(w) ==
    /\ pc[w] = "announce"
    /\ pc' = [Notified EXCEPT ![w] = "poll"]
    /\ UNCHANGED <<status, queue, scheduled, active, complete, cancel, item, result, done, failures>>

\* The threads have been joined, and check_for_interrupt has answered once more.
Joined == status = "running" /\ \A w \in Workers : pc[w] = "done"
\* mutant: an interrupted run is reported like a finished one
FinishAnyway(stop) ==
    /\ Joined
    /\ cancel => stop
    /\ cancel' = stop
    /\ status' = IF failures /= {} THEN "1" ELSE "0"
    /\ UNCHANGED <<queue, scheduled, active, complete, pc, item, result, done, failures>>
Finish(stop) ==
    /\ Joined
    /\ cancel => stop
    /\ cancel' = stop
    /\ status' = IF stop THEN "130" ELSE IF failures /= {} THEN "1" ELSE "0"
    /\ UNCHANGED <<queue, scheduled, active, complete, pc, item, result, done, failures>>

-----------------------------------------------------------------------------
PoolInit ==
    /\ status = Idle
    /\ queue = <<>> /\ scheduled = {} /\ active = 0
    /\ complete = FALSE /\ cancel = FALSE
    /\ pc = [w \in Workers |-> "done"]
    /\ item = [w \in Workers |-> NoItem]
    /\ result = [w \in Workers |-> NoResult]
    /\ done = {} /\ failures = {}

\* What a worker does without asking about signals.
Worker(w) ==
    \/ Quit(w) \/ Leave(w) \/ Take(w) \/ FallAsleep(w) \/ Sleep(w)
    \/ Work(w) \/ Commit(w) \/ Announce(w)

PoolNext ==
    \/ Launch
    \/ \E w \in Workers : Worker(w) \/ \E stop \in BOOLEAN : Answer(w, stop)
    \/ \E stop \in BOOLEAN : Finish(stop)

PoolSpec == PoolInit /\ [][PoolNext]_poolVars

-----------------------------------------------------------------------------
\* The type invariant.
PoolTypeOK ==
    /\ status \in {Idle, "running", "0", "1", "130"}
    /\ queue \in Seq(Item)
    /\ active \in Nat /\ complete \in BOOLEAN /\ cancel \in BOOLEAN
    /\ pc \in [Workers -> Busy \cup {"poll", "quit", "take", "falling", "waiting", "announce", "done"}]
    /\ item \in [Workers -> Item \cup {NoItem}]
    /\ result \in [Workers -> [found : SUBSET Targets, generated : BOOLEAN]]
    /\ done \subseteq Item /\ failures \subseteq Roots

\* While a worker sleeps, or is falling asleep, somebody is awake who will notify it:
\* setting cancel_requested without the lock loses no wakeup.
Awake == Busy \cup {"announce", "quit"}
WaiterHasHope ==
    (\E w \in Workers : pc[w] \in {"falling", "waiting"}) => \E v \in Workers : pc[v] \in Awake

\* The pool declares itself complete only when nobody holds work or can discover any.
NoEarlyStop == complete => queue = <<>> /\ BusyWorkers = {}

Queued == {queue[i] : i \in DOMAIN queue}
InHand == {item[w] : w \in BusyWorkers}

Batch == INSTANCE CompletionBatch WITH
    Items <- Item,
    Requests <- {RootItems},
    waiting <- IF status = Idle THEN RootItems ELSE Queued,
    working <- InHand,
    finished <- done,
    failed <- {i \in done : i.root /\ i.target \in failures},
    verdict <- IF status \in {Idle, "running"} THEN "none" ELSE status
\* The pool implements what the builtin promises.
KeepsItsPromise == Batch!BatchSpec
=============================================================================
