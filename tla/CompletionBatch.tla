-------------------------- MODULE CompletionBatch --------------------------
(***************************************************************************)
(* What generate-completions promises, whatever the number of its workers: *)
(* every command it was asked for, and every command discovered on the     *)
(* way, is regenerated exactly once before it answers 0 or 1; it answers 0 *)
(* only when no requested command failed; and after an interrupt it        *)
(* answers 130 once nothing is being regenerated any more.                 *)
(***************************************************************************)
CONSTANTS
    Items,      \* commands, asked for or discovered
    Requests    \* the sets of items it can be asked for

VARIABLES
    waiting,    \* known and not begun
    working,    \* being regenerated
    finished,   \* regenerated
    failed,     \* requested, and no completions were found
    verdict     \* the exit code, once there is one

batchVars == <<waiting, working, finished, failed, verdict>>

BatchInit ==
    /\ waiting \in Requests
    /\ working = {} /\ finished = {} /\ failed = {}
    /\ verdict = "none"

Begin(i) ==
    /\ i \in waiting
    /\ waiting' = waiting \ {i}
    /\ working' = working \cup {i}
    /\ UNCHANGED <<finished, failed, verdict>>

\* What is discovered was unknown.
Complete(i) ==
    /\ i \in working
    /\ working' = working \ {i}
    /\ finished' = finished \cup {i}
    /\ \E new \in SUBSET (Items \ (waiting \cup working \cup finished)) : waiting' = waiting \cup new
    /\ failed' \in {failed, failed \cup {i}}
    /\ UNCHANGED verdict

Answers(code) ==
    /\ verdict = "none" /\ working = {}
    /\ verdict' = code
    /\ code /= "130" => waiting = {}
    /\ code = "0" <=> (code /= "130" /\ failed = {})
    /\ UNCHANGED <<waiting, working, finished, failed>>

BatchNext ==
    \/ \E i \in Items : Begin(i) \/ Complete(i)
    \/ \E code \in {"0", "1", "130"} : Answers(code)

BatchSpec == BatchInit /\ [][BatchNext]_batchVars
=============================================================================
