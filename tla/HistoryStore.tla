---------------------------- MODULE HistoryStore ----------------------------
(***************************************************************************)
(* Shells sharing one history file (isocline's history.c).  A change is    *)
(* made under an exclusive flock on a separate lock file: read the data    *)
(* file, write a private temporary file, rename it over the data file.     *)
(* Readers take no lock.  One action is one system call that another       *)
(* process can observe, with the computation around it.                    *)
(***************************************************************************)
EXTENDS HistoryOps, TLC

CONSTANTS
    Sessions,     \* the shells sharing the file
    Limits,       \* the entry limits (max_entries) sessions are configured with; 0 turns history off
    Editors,      \* the sessions in which lines are edited
    Duplicating,  \* the sessions that allow duplicates
    Blank,        \* the pending text of an edit nobody typed in: not a command
    Nobody,       \* no session, no text
    InitialLists, \* what the file may hold at first
    MaxCalls      \* bound on the operations of a behaviour

ASSUME InitialListsAreLists == InitialLists \subseteq Seq(Entries)
ASSUME LimitsAreNat == Limits \subseteq Nat
ASSUME EditorsAreSessions == Editors \subseteq Sessions
ASSUME NobodyIsNoSession == Nobody \notin Sessions
ASSUME TextsDiffer == Blank # Nobody /\ {Blank, Nobody} \cap Commands = {}

NoRequest == [kind |-> "none"]
AllRequests == Requests(Limits)
Texts == Commands \cup {Blank, Nobody}

VARIABLES
    file,     \* the data file: version (inode and times; 0 when there is none) and entries
    lock,     \* the session holding the flock
    pc,       \* where each session is in its operation
    request,  \* the operation
    draft,    \* the entries it is about to write
    applied,  \* did its rename happen?
    result,   \* what its last operation reported
    limit,    \* history_t.max_entries
    failed,   \* history_t.persistence_failed
    pending,  \* history_t.pending: the line being edited
    snapshot, \* the editor's history_snapshot_t
    calls     \* operations started so far

session == <<pc, request, draft, applied, result, limit, failed, pending, snapshot>>
vars == <<file, lock, session, calls>>

NoSnapshot ==
    [loaded |-> FALSE, disabled |-> FALSE, limit |-> 0, pending |-> Nobody,
     version |-> 0, entries |-> <<>>]

Duplicates(s) == s \in Duplicating

\* history_is_disabled
Disabled(s) == limit[s] = 0 \/ failed[s]

Init ==
    /\ file \in [version : {0}, entries : {<<>>}] \cup [version : {1}, entries : InitialLists]
    /\ lock = Nobody
    /\ pc = [s \in Sessions |-> "idle"]
    /\ request = [s \in Sessions |-> NoRequest]
    /\ draft = [s \in Sessions |-> <<>>]
    /\ applied = [s \in Sessions |-> FALSE]
    /\ result = [s \in Sessions |-> "none"]
    /\ limit \in [Sessions -> Limits]
    /\ failed = [s \in Sessions |-> FALSE]
    /\ pending = [s \in Sessions |-> Nobody]
    /\ snapshot = [s \in Sessions |-> NoSnapshot]
    /\ calls = 0

(***************************************************************************)
(* The operations, as they are called.                                     *)
(***************************************************************************)

\* what every call needs here; calls is bounded
Free(s) == pc[s] = "idle" /\ calls < MaxCalls /\ calls' = calls + 1

\* to history_lock
Begin(s, called) ==
    /\ request' = [request EXCEPT ![s] = called]
    /\ pc' = [pc EXCEPT ![s] = "lock"]
    /\ result' = [result EXCEPT ![s] = "none"]
    /\ UNCHANGED <<file, lock, draft, applied, failed, snapshot>>

\* history_push_with_metadata
Push(s, c) ==
    /\ Free(s) /\ ~Disabled(s)
    /\ Begin(s, [kind |-> "push", command |-> c, limit |-> limit[s], duplicates |-> Duplicates(s)])
    /\ UNCHANGED <<limit, pending>>

\* history_update: of the pending line when there is one
Update(s, c) ==
    /\ Free(s) /\ ~Disabled(s)
    /\ IF pending[s] # Nobody
       THEN /\ pending' = [pending EXCEPT ![s] = c]
            /\ UNCHANGED <<file, lock, pc, request, draft, applied, result, limit, failed, snapshot>>
       ELSE /\ Begin(s, [kind |-> "update", command |-> c, limit |-> limit[s],
                         duplicates |-> Duplicates(s)])
            /\ UNCHANGED <<limit, pending>>

\* history_remove_last: of the pending line when there is one
RemoveLast(s) ==
    /\ Free(s)
    /\ IF pending[s] # Nobody
       THEN /\ pending' = [pending EXCEPT ![s] = Nobody]
            /\ UNCHANGED <<file, lock, pc, request, draft, applied, result, limit, failed, snapshot>>
       ELSE /\ ~Disabled(s)
            /\ Begin(s, [kind |-> "remove last", limit |-> limit[s], duplicates |-> Duplicates(s)])
            /\ UNCHANGED <<limit, pending>>

\* history_clear: the pending line goes even when history is disabled
Clear(s) ==
    /\ Free(s)
    /\ pending' = [pending EXCEPT ![s] = Nobody]
    /\ UNCHANGED limit
    /\ IF Disabled(s)
       THEN UNCHANGED <<file, lock, pc, request, draft, applied, result, failed, snapshot>>
       ELSE Begin(s, [kind |-> "clear", limit |-> limit[s], duplicates |-> Duplicates(s)])

\* history_load_from: a new limit, and the file rewritten within it
Load(s, new) ==
    /\ Free(s)
    /\ limit' = [limit EXCEPT ![s] = new]
    /\ UNCHANGED pending
    /\ IF new = 0 \/ failed[s]
       THEN UNCHANGED <<file, lock, pc, request, draft, applied, result, failed, snapshot>>
       ELSE Begin(s, [kind |-> "load", limit |-> new, duplicates |-> Duplicates(s)])

(***************************************************************************)
(* A change of the file.                                                   *)
(***************************************************************************)

\* history_lock: flock returns; clear reads nothing
Acquire(s) ==
    /\ pc[s] = "lock" /\ lock = Nobody
    /\ lock' = s
    /\ draft' = [draft EXCEPT ![s] = <<>>]
    /\ pc' = [pc EXCEPT ![s] = IF request[s].kind = "clear" THEN "rename" ELSE "read"]
    /\ UNCHANGED <<file, request, applied, result, limit, failed, pending, snapshot, calls>>

\* history_unlock, and the caller gets its answer
Return(s) ==
    /\ pc' = [pc EXCEPT ![s] = "idle"]
    /\ request' = [request EXCEPT ![s] = NoRequest]
    /\ draft' = [draft EXCEPT ![s] = <<>>]
    /\ applied' = [applied EXCEPT ![s] = FALSE]
    /\ result' = [result EXCEPT ![s] = IF ~Answers(request[s]) THEN "none"
                                       ELSE IF applied[s] THEN "ok" ELSE "failed"]

\* history_lock cannot open or lock the lock file: history_persistence_error
LockFails(s) ==
    /\ pc[s] = "lock"
    /\ failed' = [failed EXCEPT ![s] = TRUE]
    /\ Return(s)
    /\ UNCHANGED <<file, lock, limit, pending, snapshot, calls>>

\* mutant: the lock is dropped before the rename
EarlyUnlockRename(s) ==
    /\ pc[s] = "read" /\ lock = s
    /\ draft' = [draft EXCEPT ![s] = Effect(request[s], file.entries)]
    /\ pc' = [pc EXCEPT ![s] = "rename"]
    /\ lock' = Nobody
    /\ UNCHANGED <<file, request, applied, result, limit, failed, pending, snapshot, calls>>

\* history_collect_disk_entries and the change of the list in memory;
\* remove_last of nothing writes nothing
Read(s) ==
    /\ pc[s] = "read"
    /\ draft' = [draft EXCEPT ![s] = Effect(request[s], file.entries)]
    /\ pc' = [pc EXCEPT ![s] = IF request[s].kind = "remove last" /\ file.entries = <<>>
                               THEN "unlock" ELSE "rename"]
    /\ UNCHANGED <<file, lock, request, applied, result, limit, failed, pending, snapshot, calls>>

\* the file cannot be read: every operation but remove_last gives up on storage
ReadFails(s) ==
    /\ pc[s] = "read"
    /\ failed' = [failed EXCEPT ![s] = request[s].kind # "remove last"]
    /\ pc' = [pc EXCEPT ![s] = "unlock"]
    /\ UNCHANGED <<file, lock, request, draft, applied, result, limit, pending, snapshot, calls>>

\* history_write_all: the temporary file, whole and synced, takes the name
Rename(s) ==
    /\ pc[s] = "rename"
    /\ file' = [version |-> file.version + 1, entries |-> draft[s]]
    /\ applied' = [applied EXCEPT ![s] = TRUE]
    /\ pc' = [pc EXCEPT ![s] = "unlock"]
    /\ UNCHANGED <<lock, request, draft, result, limit, failed, pending, snapshot, calls>>

\* history_write_all fails at any step before: the data file is as it was
WriteFails(s) ==
    /\ pc[s] = "rename"
    /\ failed' = [failed EXCEPT ![s] = TRUE]
    /\ pc' = [pc EXCEPT ![s] = "unlock"]
    /\ UNCHANGED <<file, lock, request, draft, applied, result, limit, pending, snapshot, calls>>

\* mutant: the way out of a read that failed forgets the lock
KeepLock(s) ==
    /\ pc[s] = "unlock"
    /\ lock' = IF applied[s] THEN Nobody ELSE lock
    /\ Return(s)
    /\ UNCHANGED <<file, limit, failed, pending, snapshot, calls>>

Unlock(s) ==
    /\ pc[s] = "unlock"
    /\ lock' = Nobody
    /\ Return(s)
    /\ UNCHANGED <<file, limit, failed, pending, snapshot, calls>>

(***************************************************************************)
(* The editor's side.                                                      *)
(***************************************************************************)

\* history_begin_edit
BeginEdit(s) ==
    /\ pc[s] = "idle" /\ ~Disabled(s)
    /\ pending' = [pending EXCEPT ![s] = Blank]
    /\ UNCHANGED <<file, lock, pc, request, draft, applied, result, limit, failed, snapshot, calls>>

\* history_end_edit: cjsh turns auto_add off; the editor frees its snapshot
EndEdit(s) ==
    /\ pc[s] = "idle" /\ (pending[s] # Nobody \/ snapshot[s] # NoSnapshot)
    /\ pending' = [pending EXCEPT ![s] = Nobody]
    /\ snapshot' = [snapshot EXCEPT ![s] = NoSnapshot]
    /\ UNCHANGED <<file, lock, pc, request, draft, applied, result, limit, failed, calls>>

\* what a session would read from the file now
View(s) == IF Disabled(s) THEN <<>> ELSE Collected(file.entries, limit[s], Duplicates(s))

\* mutant: the file is told apart by its length
SameLength(s) ==
    /\ snapshot[s].loaded
    /\ snapshot[s].limit = limit[s]
    /\ snapshot[s].disabled = Disabled(s)
    /\ snapshot[s].pending = (IF Disabled(s) THEN Nobody ELSE pending[s])
    /\ Len(snapshot[s].entries) = Len(file.entries)

\* history_snapshot_is_current
IsCurrent(s) ==
    /\ snapshot[s].loaded
    /\ snapshot[s].limit = limit[s]
    /\ snapshot[s].disabled = Disabled(s)
    /\ snapshot[s].pending = (IF Disabled(s) THEN Nobody ELSE pending[s])
    /\ snapshot[s].version = file.version

\* history_snapshot_refresh of a stale snapshot: history_snapshot_load up to its stat
Look(s) ==
    /\ pc[s] = "idle" /\ ~IsCurrent(s)
    /\ pc' = [pc EXCEPT ![s] = "look"]
    /\ snapshot' = [snapshot EXCEPT ![s] =
            [loaded |-> FALSE, disabled |-> Disabled(s), limit |-> limit[s],
             pending |-> IF Disabled(s) THEN Nobody ELSE pending[s],
             version |-> file.version, entries |-> <<>>]]
    /\ UNCHANGED <<file, lock, request, draft, applied, result, limit, failed, pending, calls>>

\* the rest of history_snapshot_load: the file as it is by now
Take(s) ==
    /\ pc[s] = "look"
    /\ pc' = [pc EXCEPT ![s] = "idle"]
    /\ snapshot' = [snapshot EXCEPT ![s].entries = View(s), ![s].loaded = TRUE]
    /\ UNCHANGED <<file, lock, request, draft, applied, result, limit, failed, pending, calls>>

\* history_snapshot_load cannot read the file
TakeFails(s) ==
    /\ pc[s] = "look" /\ ~Disabled(s)
    /\ pc' = [pc EXCEPT ![s] = "idle"]
    /\ UNCHANGED <<file, lock, request, draft, applied, result, limit, failed, pending, snapshot,
                   calls>>

\* the process dies, its flock with it; another shell takes its place
Crash(s) ==
    /\ lock' = IF lock = s THEN Nobody ELSE lock
    /\ pc' = [pc EXCEPT ![s] = "idle"]
    /\ request' = [request EXCEPT ![s] = NoRequest]
    /\ draft' = [draft EXCEPT ![s] = <<>>]
    /\ applied' = [applied EXCEPT ![s] = FALSE]
    /\ result' = [result EXCEPT ![s] = "none"]
    /\ failed' = [failed EXCEPT ![s] = FALSE]
    /\ pending' = [pending EXCEPT ![s] = Nobody]
    /\ snapshot' = [snapshot EXCEPT ![s] = NoSnapshot]
    /\ UNCHANGED <<file, limit, calls>>

Call(s) ==
    \/ \E c \in Commands : Push(s, c) \/ Update(s, c)
    \/ RemoveLast(s) \/ Clear(s)
    \/ \E new \in Limits : Load(s, new)

\* the system calls of an operation that has the lock
Holding(s) == Read(s) \/ ReadFails(s) \/ Rename(s) \/ WriteFails(s) \/ Unlock(s)

Edit(s) == BeginEdit(s) \/ EndEdit(s) \/ Look(s) \/ Take(s) \/ TakeFails(s)

Next ==
    \/ \E s \in Sessions : Call(s) \/ Acquire(s) \/ LockFails(s) \/ Holding(s) \/ Crash(s)
    \/ \E s \in Editors : Edit(s)

Spec == Init /\ [][Next]_vars

(***************************************************************************)
(* Properties.                                                             *)
(***************************************************************************)

TypeOK ==
    /\ file \in [version : Nat, entries : Seq(Entries)]
    /\ lock \in Sessions \cup {Nobody}
    /\ pc \in [Sessions -> {"idle", "lock", "read", "rename", "unlock", "look"}]
    /\ request \in [Sessions -> AllRequests \cup {NoRequest}]
    /\ draft \in [Sessions -> Seq(Entries)]
    /\ applied \in [Sessions -> BOOLEAN]
    /\ result \in [Sessions -> {"none", "ok", "failed"}]
    /\ limit \in [Sessions -> Limits]
    /\ failed \in [Sessions -> BOOLEAN]
    /\ pending \in [Sessions -> Texts]
    /\ snapshot \in [Sessions -> [loaded : BOOLEAN, disabled : BOOLEAN, limit : Limits \cup {0},
                                  pending : Texts, version : Nat, entries : Seq(Entries)]]
    /\ calls \in Nat

\* However the sessions' locks, reads, renames, failures and deaths interleave, the file is
\* an atomic log: every operation takes effect on what the file holds at that instant, whole
\* or not at all, and a push that reported success is one that did (history_lock's promise
\* that readers see either complete committed snapshot, and no session's change is lost).
Log == INSTANCE HistoryLog WITH log <- file.entries, Logs <- Seq(Entries), Calls <- AllRequests
Atomic == Log!Spec

\* A snapshot that history_snapshot_is_current lets the editor keep is what a fresh read would
\* give now, whatever other sessions did to the file and cjshopt to the limit since its stat.
SnapshotTrue == \A s \in Sessions :
    pc[s] = "idle" /\ IsCurrent(s) => snapshot[s].entries = View(s)

\* Who renames, and what
Commits(s) == pc[s] = "rename" /\ file' # file /\ pc'[s] = "unlock"
Has(list, c) == Same(list, c) # <<>>

\* The frequency of a command counts its pushes by all the sessions: a push that commits
\* raises by one what the newest entry of its command has in the file it replaces, though
\* that was read before the temporary file was written.
FrequencyCounts == [][\A s \in Sessions :
    LET c == request[s].command
        kept == Pruned(file.entries, limit[s])
    IN  Commits(s) /\ request[s].kind = "push" /\ ~Duplicates(s) /\ Has(kept, c)
        /\ Newest(kept, c).frequency < FrequencyLimit
        => Last(file'.entries).frequency = Newest(kept, c).frequency + 1]_vars

\* No operation leaves the lock behind, on any of its ways out: reads and writes that fail and
\* deaths too.  Every other shell that wants to write would block in flock for ever.
LockReturned == \A s \in Sessions : lock = s => pc[s] \in {"read", "rename", "unlock"}
=============================================================================
