----------------------------- MODULE HistoryLog -----------------------------
(***************************************************************************)
(* What the shared history promises: sessions call operations, each of     *)
(* which takes effect at one instant between its call and its return, on   *)
(* whatever the log holds then.  An operation that answers reports success *)
(* exactly when it took effect.  A session that dies takes nothing back.   *)
(***************************************************************************)
CONSTANTS
    Sessions,     \* the shells that share the history file
    Logs,         \* the contents a log may have
    Calls,        \* the operations a session may call
    Answers(_),   \* does the call report how it went?
    Effect(_, _)  \* what the call makes of a log

NoRequest == [kind |-> "none"]

VARIABLES
    log,     \* the entries
    request, \* what each session is doing
    applied, \* has it taken effect?
    result   \* what the last finished call of each session reported

vars == <<log, request, applied, result>>

Init ==
    /\ log \in Logs
    /\ request = [s \in Sessions |-> NoRequest]
    /\ applied = [s \in Sessions |-> FALSE]
    /\ result = [s \in Sessions |-> "none"]

Call(s) ==
    /\ request[s] = NoRequest
    /\ \E called \in Calls : request' = [request EXCEPT ![s] = called]
    /\ result' = [result EXCEPT ![s] = "none"]
    /\ UNCHANGED <<log, applied>>

TakeEffect(s) ==
    /\ request[s] # NoRequest
    /\ ~applied[s]
    /\ log' = Effect(request[s], log)
    /\ applied' = [applied EXCEPT ![s] = TRUE]
    /\ UNCHANGED <<request, result>>

Return(s) ==
    /\ request[s] # NoRequest
    /\ result' = [result EXCEPT ![s] = IF ~Answers(request[s]) THEN "none"
                                       ELSE IF applied[s] THEN "ok" ELSE "failed"]
    /\ request' = [request EXCEPT ![s] = NoRequest]
    /\ applied' = [applied EXCEPT ![s] = FALSE]
    /\ UNCHANGED log

\* the session dies, and a new one may take its place
Crash(s) ==
    /\ request' = [request EXCEPT ![s] = NoRequest]
    /\ applied' = [applied EXCEPT ![s] = FALSE]
    /\ result' = [result EXCEPT ![s] = "none"]
    /\ UNCHANGED log

Next == \E s \in Sessions : Call(s) \/ TakeEffect(s) \/ Return(s) \/ Crash(s)

Spec == Init /\ [][Next]_vars
=============================================================================
