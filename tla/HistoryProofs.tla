--------------------------- MODULE HistoryProofs ---------------------------
(***************************************************************************)
(* The history file is an atomic log, for any number of sessions: the      *)
(* flock makes the entries a session read still be the file's entries when *)
(* its rename comes.  And what operations make of a list, for lists of any *)
(* length: induction over lists is induction over their lengths, and that  *)
(* rests on the least number of a set (LeastNatural).                      *)
(***************************************************************************)
EXTENDS HistoryStore, SequenceTheorems, WellFoundedInduction, TLAPS

InLock == {"read", "rename", "unlock"}
AtRest == {"idle", "look"}

\* Only the holder of the lock is between history_lock and history_unlock.
HolderOnly == \A s \in Sessions : pc[s] \in InLock => lock = s

\* What a session is about to write is its change of what the file holds now.
DraftFresh == \A s \in Sessions :
    pc[s] = "rename" => draft[s] = Effect(request[s], file.entries)

\* The places of an operation say whether there is one and whether it took effect.
InProgress == \A s \in Sessions :
    /\ pc[s] \in AtRest => request[s] = NoRequest
    /\ pc[s] \notin AtRest => request[s] \in AllRequests
    /\ pc[s] # "unlock" => ~applied[s]

Fields ==
    /\ pc \in [Sessions -> {"idle", "lock"} \cup InLock \cup {"look"}]
    /\ request \in [Sessions -> AllRequests \cup {NoRequest}]
    /\ draft = [s \in Sessions |-> draft[s]]
    /\ applied \in [Sessions -> BOOLEAN]
    /\ result = [s \in Sessions |-> result[s]]
    /\ limit \in [Sessions -> Limits]

Inv == Fields /\ HolderOnly /\ DraftFresh /\ InProgress

LEMMA NoRequestIsNone == \A called \in AllRequests : called # NoRequest
<1> SUFFICES ASSUME NEW called \in AllRequests PROVE called.kind # "none"
  BY DEF NoRequest
<1>1. CASE called \in [kind : {"push", "update"}, command : Commands, limit : Limits,
                       duplicates : BOOLEAN]
  BY <1>1
<1>2. CASE called \in [kind : {"remove last", "clear", "load"}, limit : Limits,
                       duplicates : BOOLEAN]
  BY <1>2
<1> QED BY <1>1, <1>2 DEF AllRequests, Requests

LEMMA ClearEmpties ==
    ASSUME NEW list, NEW called, called.kind = "clear" PROVE Effect(called, list) = <<>>
BY DEF Effect

LEMMA Steps ==
    ASSUME Next
    PROVE  \E s \in Sessions :
              Call(s) \/ Acquire(s) \/ LockFails(s) \/ Holding(s) \/ Crash(s) \/ Edit(s)
BY EditorsAreSessions DEF Next

LEMMA InvInit == Init => Inv
BY DEF Init, Inv, Fields, HolderOnly, DraftFresh, InProgress, InLock, AtRest

\* A call starts an operation the session is not in the middle of.
LEMMA CallKinds ==
    ASSUME Inv, NEW s \in Sessions, Call(s)
    PROVE  /\ pc[s] = "idle"
           /\ UNCHANGED <<file, lock, draft, applied>>
           /\ limit' \in [Sessions -> Limits]
           /\ \/ UNCHANGED <<pc, request, result>>
              \/ \E called \in AllRequests :
                    /\ request' = [request EXCEPT ![s] = called]
                    /\ pc' = [pc EXCEPT ![s] = "lock"]
                    /\ result' = [result EXCEPT ![s] = "none"]
<1> DEFINE Started == \E called \in AllRequests :
              /\ request' = [request EXCEPT ![s] = called]
              /\ pc' = [pc EXCEPT ![s] = "lock"]
              /\ result' = [result EXCEPT ![s] = "none"]
<1>0. limit[s] \in Limits /\ Duplicates(s) \in BOOLEAN
  BY DEF Inv, Fields, Duplicates
<1>1. ASSUME NEW c \in Commands, Push(s, c) PROVE Started
  <2> DEFINE called == [kind |-> "push", command |-> c, limit |-> limit[s],
                        duplicates |-> Duplicates(s)]
  <2>1. called \in AllRequests BY <1>0 DEF AllRequests, Requests
  <2> QED BY <1>1, <2>1 DEF Push, Begin
<1>2. ASSUME NEW c \in Commands, Update(s, c) PROVE UNCHANGED <<pc, request, result>> \/ Started
  <2> DEFINE called == [kind |-> "update", command |-> c, limit |-> limit[s],
                        duplicates |-> Duplicates(s)]
  <2>1. called \in AllRequests BY <1>0 DEF AllRequests, Requests
  <2> QED BY <1>2, <2>1 DEF Update, Begin
<1>3. ASSUME RemoveLast(s) PROVE UNCHANGED <<pc, request, result>> \/ Started
  <2> DEFINE called == [kind |-> "remove last", limit |-> limit[s], duplicates |-> Duplicates(s)]
  <2>1. called \in AllRequests BY <1>0 DEF AllRequests, Requests
  <2> QED BY <1>3, <2>1 DEF RemoveLast, Begin
<1>4. ASSUME Clear(s) PROVE UNCHANGED <<pc, request, result>> \/ Started
  <2> DEFINE called == [kind |-> "clear", limit |-> limit[s], duplicates |-> Duplicates(s)]
  <2>1. called \in AllRequests BY <1>0 DEF AllRequests, Requests
  <2> QED BY <1>4, <2>1 DEF Clear, Begin
<1>5. ASSUME NEW new \in Limits, Load(s, new) PROVE UNCHANGED <<pc, request, result>> \/ Started
  <2> DEFINE called == [kind |-> "load", limit |-> new, duplicates |-> Duplicates(s)]
  <2>1. called \in AllRequests BY <1>0 DEF AllRequests, Requests
  <2> QED BY <1>5, <2>1 DEF Load, Begin
<1>6. UNCHANGED <<pc, request, result>> \/ Started
  BY <1>1, <1>2, <1>3, <1>4, <1>5 DEF Call
<1>7. pc[s] = "idle" /\ UNCHANGED <<file, lock, draft, applied>>
  BY DEF Call, Push, Update, RemoveLast, Clear, Load, Free, Begin
<1>8. limit' \in [Sessions -> Limits]
  BY DEF Call, Push, Update, RemoveLast, Clear, Load, Inv, Fields
<1> QED BY <1>6, <1>7, <1>8

\* The editor's steps leave the operations and the file alone.
LEMMA EditKinds ==
    ASSUME Inv, NEW s \in Sessions, Edit(s)
    PROVE  /\ pc[s] \in AtRest
           /\ \E place \in AtRest : pc' = [pc EXCEPT ![s] = place]
           /\ UNCHANGED <<file, lock, request, draft, applied, result, limit>>
<1>1. pc[s] \in AtRest /\ UNCHANGED <<file, lock, request, draft, applied, result, limit>>
  BY DEF Edit, BeginEdit, EndEdit, Look, Take, TakeFails, AtRest
<1>2. CASE UNCHANGED pc
  <2>1. pc' = [pc EXCEPT ![s] = pc[s]] BY <1>2 DEF Inv, Fields
  <2> QED BY <1>1, <2>1
<1>3. CASE ~UNCHANGED pc
  <2>1. pc' = [pc EXCEPT ![s] = "look"] \/ pc' = [pc EXCEPT ![s] = "idle"]
    BY <1>3 DEF Edit, BeginEdit, EndEdit, Look, Take, TakeFails
  <2> QED BY <1>1, <2>1 DEF AtRest
<1> QED BY <1>2, <1>3

LEMMA InvNext == Inv /\ [Next]_vars => Inv'
<1> SUFFICES ASSUME Inv, [Next]_vars PROVE Inv'
  OBVIOUS
<1> USE DEF InLock, AtRest
<1>1. CASE UNCHANGED vars
  BY <1>1 DEF Inv, Fields, HolderOnly, DraftFresh, InProgress, vars, session
<1>2. ASSUME NEW s \in Sessions, Call(s) PROVE Inv'
  <2>1. CASE UNCHANGED <<pc, request, result>>
    BY <1>2, <2>1, CallKinds DEF Inv, Fields, HolderOnly, DraftFresh, InProgress
  <2>2. CASE ~UNCHANGED <<pc, request, result>>
    <3>1. PICK called \in AllRequests :
            /\ request' = [request EXCEPT ![s] = called]
            /\ pc' = [pc EXCEPT ![s] = "lock"]
            /\ result' = [result EXCEPT ![s] = "none"]
      BY <1>2, <2>2, CallKinds
    <3>2. pc[s] = "idle" /\ limit' \in [Sessions -> Limits]
          /\ UNCHANGED <<file, lock, draft, applied>>
      BY <1>2, CallKinds
    <3>3. Fields'
      BY <3>1, <3>2 DEF Inv, Fields
    <3>4. HolderOnly'
      BY <3>1, <3>2 DEF Inv, Fields, HolderOnly
    <3>5. DraftFresh'
      BY <3>1, <3>2 DEF Inv, Fields, DraftFresh
    <3>6. InProgress'
      BY <3>1, <3>2 DEF Inv, Fields, InProgress
    <3> QED BY <3>3, <3>4, <3>5, <3>6 DEF Inv
  <2> QED BY <2>1, <2>2
<1>3. ASSUME NEW s \in Sessions, Acquire(s) PROVE Inv'
  <2>1. Fields' /\ HolderOnly' /\ InProgress'
    BY <1>3, NobodyIsNoSession DEF Inv, Fields, HolderOnly, InProgress, Acquire
  <2>2. ASSUME request[s].kind = "clear" PROVE Effect(request[s], file.entries) = <<>>
    BY <2>2, ClearEmpties
  <2>3. DraftFresh'
    BY <1>3, <2>2 DEF Inv, Fields, DraftFresh, Acquire
  <2> QED BY <2>1, <2>3 DEF Inv
<1>4. ASSUME NEW s \in Sessions, LockFails(s) PROVE Inv'
  BY <1>4 DEF Inv, Fields, HolderOnly, DraftFresh, InProgress, LockFails, Return
<1>5. ASSUME NEW s \in Sessions, Read(s) PROVE Inv'
  BY <1>5 DEF Inv, Fields, HolderOnly, DraftFresh, InProgress, Read
<1>6. ASSUME NEW s \in Sessions, ReadFails(s) \/ WriteFails(s) PROVE Inv'
  BY <1>6 DEF Inv, Fields, HolderOnly, DraftFresh, InProgress, ReadFails, WriteFails
\* The rename changes the file under nobody: the others that are to rename would hold the lock.
<1>7. ASSUME NEW s \in Sessions, Rename(s) PROVE Inv'
  <2>1. Fields' /\ HolderOnly' /\ InProgress'
    BY <1>7 DEF Inv, Fields, HolderOnly, InProgress, Rename
  <2>2. \A r \in Sessions : pc'[r] # "rename"
    BY <1>7 DEF Inv, Fields, HolderOnly, Rename
  <2> QED BY <2>1, <2>2 DEF Inv, DraftFresh
<1>8. ASSUME NEW s \in Sessions, Unlock(s) PROVE Inv'
  BY <1>8 DEF Inv, Fields, HolderOnly, DraftFresh, InProgress, Unlock, Return
<1>9. ASSUME NEW s \in Sessions, Crash(s) PROVE Inv'
  BY <1>9 DEF Inv, Fields, HolderOnly, DraftFresh, InProgress, Crash
<1>10. ASSUME NEW s \in Sessions, Edit(s) PROVE Inv'
  <2>1. PICK place \in AtRest : pc' = [pc EXCEPT ![s] = place]
    BY <1>10, EditKinds
  <2>2. pc[s] \in AtRest /\ UNCHANGED <<file, lock, request, draft, applied, result, limit>>
    BY <1>10, EditKinds
  <2>3. Fields' /\ HolderOnly'
    BY <2>1, <2>2 DEF Inv, Fields, HolderOnly
  <2>4. DraftFresh'
    BY <2>1, <2>2 DEF Inv, Fields, DraftFresh
  <2>5. InProgress'
    BY <2>1, <2>2 DEF Inv, Fields, InProgress
  <2> QED BY <2>3, <2>4, <2>5 DEF Inv
<1>11. ASSUME Next PROVE Inv'
  <2>1. PICK s \in Sessions :
           Call(s) \/ Acquire(s) \/ LockFails(s) \/ Holding(s) \/ Crash(s) \/ Edit(s)
    BY <1>11, Steps
  <2> QED
    BY <2>1, <1>2, <1>3, <1>4, <1>5, <1>6, <1>7, <1>8, <1>9, <1>10, Zenon DEF Holding
<1> QED BY <1>1, <1>11

LEMMA LogInit == Init => Log!Init
<1> SUFFICES ASSUME Init PROVE Log!Init
  OBVIOUS
<1>1. file.entries \in Seq(Entries)
  <2>1. <<>> \in Seq(Entries)
    OBVIOUS
  <2>2. file.entries = <<>> \/ file.entries \in InitialLists
    BY DEF Init
  <2> QED BY <2>1, <2>2, InitialListsAreLists
<1> QED BY <1>1 DEF Init, Log!Init, NoRequest, Log!NoRequest

\* Every step is a step of the log, or none of its business.
LEMMA LogStep == Inv /\ [Next]_vars => [Log!Next]_(Log!vars)
<1> SUFFICES ASSUME Inv, [Next]_vars PROVE Log!Next \/ UNCHANGED Log!vars
  OBVIOUS
<1> USE DEF InLock, AtRest, NoRequest, Log!NoRequest
<1>1. CASE UNCHANGED vars
  BY <1>1 DEF vars, session, Log!vars
<1>2. ASSUME NEW s \in Sessions, Call(s) PROVE Log!Call(s) \/ UNCHANGED Log!vars
  BY <1>2, CallKinds DEF Inv, InProgress, Log!Call, Log!vars
<1>3. ASSUME NEW s \in Sessions, Acquire(s) \/ Read(s) \/ ReadFails(s) \/ WriteFails(s)
      PROVE  UNCHANGED Log!vars
  BY <1>3 DEF Acquire, Read, ReadFails, WriteFails, Log!vars
<1>4. ASSUME NEW s \in Sessions, Rename(s) PROVE Log!TakeEffect(s)
  <2>1. request[s] # NoRequest /\ ~applied[s]
    BY <1>4, NoRequestIsNone DEF Rename, Inv, InProgress
  <2>2. file'.entries = Effect(request[s], file.entries)
    BY <1>4 DEF Rename, Inv, DraftFresh
  <2> QED BY <1>4, <2>1, <2>2 DEF Rename, Log!TakeEffect
<1>5. ASSUME NEW s \in Sessions, LockFails(s) \/ Unlock(s) PROVE Log!Return(s)
  <2>1. request[s] # NoRequest
    BY <1>5, NoRequestIsNone DEF LockFails, Unlock, Inv, InProgress
  <2> QED BY <1>5, <2>1 DEF LockFails, Unlock, Return, Log!Return
<1>6. ASSUME NEW s \in Sessions, Crash(s) PROVE Log!Crash(s)
  BY <1>6 DEF Crash, Log!Crash
<1>7. ASSUME NEW s \in Sessions, Edit(s) PROVE UNCHANGED Log!vars
  BY <1>7, EditKinds DEF Log!vars
<1> QED
  BY <1>1, <1>2, <1>3, <1>4, <1>5, <1>6, <1>7, Steps DEF Holding, Log!Next

\* However sessions' locks, reads, renames, failures and deaths interleave, the history file
\* behaves as an atomic log whose operations take effect once or not at all (history_lock,
\* history_write_all).
THEOREM HistoryIsAtomic == Spec => Atomic
<1>1. Init => Inv BY InvInit
<1>2. Inv /\ [Next]_vars => Inv' BY InvNext
<1>3. Init => Log!Init BY LogInit
<1>4. Inv /\ [Next]_vars => [Log!Next]_(Log!vars) BY LogStep
<1> QED BY <1>1, <1>2, <1>3, <1>4, PTL DEF Spec, Atomic, Log!Spec

(***************************************************************************)
(* The editor's snapshot.  Its version is never ahead of the file's, and   *)
(* while they agree its entries are what the file then held.               *)
(***************************************************************************)

SnapshotFields ==
    /\ file.version \in Nat
    /\ DOMAIN limit = Sessions /\ limit = [s \in Sessions |-> limit[s]]
    /\ failed \in [Sessions -> BOOLEAN]
    /\ pc = [s \in Sessions |-> pc[s]]
    /\ snapshot = [s \in Sessions |-> snapshot[s]]
    /\ \A s \in Sessions : /\ DOMAIN snapshot[s] = DOMAIN NoSnapshot
                           /\ snapshot[s].version \in Nat
                           /\ snapshot[s].disabled \in BOOLEAN

\* The version was the file's at the stat.
NeverAhead == \A s \in Sessions : snapshot[s].version <= file.version

\* Between its stat and its read a session does nothing else.
Looking == \A s \in Sessions : pc[s] = "look" =>
    /\ ~snapshot[s].loaded
    /\ snapshot[s].limit = limit[s]
    /\ snapshot[s].disabled = Disabled(s)

\* What was read is what the file holds while its version is the snapshot's.
TakenTrue == \A s \in Sessions : snapshot[s].loaded =>
    IF snapshot[s].disabled THEN snapshot[s].entries = <<>>
    ELSE snapshot[s].version = file.version =>
            snapshot[s].entries = Collected(file.entries, snapshot[s].limit, Duplicates(s))

SnapshotInv == SnapshotFields /\ NeverAhead /\ Looking /\ TakenTrue

LEMMA NoSnapshotFields ==
    /\ NoSnapshot.version = 0
    /\ NoSnapshot.version \in Nat
    /\ NoSnapshot.disabled \in BOOLEAN
    /\ ~NoSnapshot.loaded
BY DEF NoSnapshot

LEMMA SnapshotInit == Init => SnapshotInv
<1> SUFFICES ASSUME Init PROVE SnapshotInv
  OBVIOUS
<1>1. file.version \in Nat
  BY DEF Init
<1>2. \A s \in Sessions : snapshot[s] = NoSnapshot /\ pc[s] = "idle"
  BY DEF Init
<1>3. SnapshotFields
  <2>1. limit = [s \in Sessions |-> limit[s]] /\ DOMAIN limit = Sessions
        /\ failed \in [Sessions -> BOOLEAN]
        /\ pc = [s \in Sessions |-> pc[s]] /\ snapshot = [s \in Sessions |-> snapshot[s]]
    BY DEF Init
  <2>2. \A s \in Sessions : /\ DOMAIN snapshot[s] = DOMAIN NoSnapshot
                           /\ snapshot[s].version \in Nat
                           /\ snapshot[s].disabled \in BOOLEAN
    BY <1>2, NoSnapshotFields, Zenon
  <2> QED BY <1>1, <2>1, <2>2 DEF SnapshotFields
<1>4. NeverAhead
  BY <1>1, <1>2, NoSnapshotFields DEF NeverAhead
<1>5. Looking /\ TakenTrue
  BY <1>2, NoSnapshotFields, Zenon DEF Looking, TakenTrue
<1> QED BY <1>3, <1>4, <1>5 DEF SnapshotInv

\* A step that keeps the snapshots and the file's version, and moves nobody to "look", and
\* changes no setting of a session that looks.
LEMMA SnapshotKept ==
    ASSUME SnapshotInv, UNCHANGED <<file, snapshot>>,
           SnapshotFields',
           \A s \in Sessions : pc'[s] = "look" =>
               pc[s] = "look" /\ limit'[s] = limit[s] /\ failed'[s] = failed[s]
    PROVE  SnapshotInv'
<1>1. NeverAhead' /\ TakenTrue'
  BY DEF SnapshotInv, NeverAhead, TakenTrue
<1>2. Looking'
  BY DEF SnapshotInv, Looking, Disabled
<1> QED BY <1>1, <1>2 DEF SnapshotInv

LEMMA SnapshotNext == SnapshotInv /\ [Next]_vars => SnapshotInv'
<1> SUFFICES ASSUME SnapshotInv, [Next]_vars PROVE SnapshotInv'
  OBVIOUS
<1>1. CASE UNCHANGED vars
  BY <1>1 DEF SnapshotInv, SnapshotFields, NeverAhead, Looking, TakenTrue, Disabled, vars, session
<1>2. ASSUME NEW s \in Sessions, Call(s) PROVE SnapshotInv'
  <2>1. UNCHANGED <<file, snapshot, failed>> /\ pc[s] = "idle"
    BY <1>2 DEF Call, Push, Update, RemoveLast, Clear, Load, Free, Begin
  <2>2. limit' = limit \/ \E new \in Limits : limit' = [limit EXCEPT ![s] = new]
    BY <1>2 DEF Call, Push, Update, RemoveLast, Clear, Load
  <2>3. pc' = pc \/ pc' = [pc EXCEPT ![s] = "lock"]
    BY <1>2 DEF Call, Push, Update, RemoveLast, Clear, Load, Begin
  <2>4. SnapshotFields'
    BY <2>1, <2>2, <2>3 DEF SnapshotInv, SnapshotFields
  <2>5. \A r \in Sessions : pc'[r] = "look" => pc[r] = "look" /\ limit'[r] = limit[r]
    BY <2>1, <2>2, <2>3 DEF SnapshotInv, SnapshotFields
  <2> QED BY <2>1, <2>4, <2>5, SnapshotKept
<1>3. ASSUME NEW s \in Sessions,
             Acquire(s) \/ LockFails(s) \/ Read(s) \/ ReadFails(s) \/ WriteFails(s) \/ Unlock(s)
      PROVE  SnapshotInv'
  <2>1. UNCHANGED <<file, snapshot, limit>>
    BY <1>3 DEF Acquire, LockFails, Read, ReadFails, WriteFails, Unlock
  <2>2. pc[s] # "look" /\ \E place \in {"idle", "read", "rename", "unlock"} :
            pc' = [pc EXCEPT ![s] = place]
    BY <1>3 DEF Acquire, LockFails, Read, ReadFails, WriteFails, Unlock, Return
  <2>3. \E b \in BOOLEAN : failed' = [failed EXCEPT ![s] = b] \/ failed' = failed
    BY <1>3 DEF Acquire, LockFails, Read, ReadFails, WriteFails, Unlock, Return
  <2>4. SnapshotFields'
    BY <2>1, <2>2, <2>3 DEF SnapshotInv, SnapshotFields
  <2>5. \A r \in Sessions : pc'[r] = "look" => pc[r] = "look" /\ failed'[r] = failed[r]
    BY <2>2, <2>3 DEF SnapshotInv, SnapshotFields
  <2> QED BY <2>1, <2>4, <2>5, SnapshotKept
\* A rename leaves every snapshot behind.
<1>4. ASSUME NEW s \in Sessions, Rename(s) PROVE SnapshotInv'
  <2>1. file'.version = file.version + 1 /\ UNCHANGED <<snapshot, limit, failed>>
    BY <1>4 DEF Rename
  <2>2. pc' = [pc EXCEPT ![s] = "unlock"]
    BY <1>4 DEF Rename
  <2> file.version \in Nat /\ file'.version \in Nat
    BY <2>1 DEF SnapshotInv, SnapshotFields
  <2>3. SnapshotFields'
    <3>1. pc' = [r \in Sessions |-> pc'[r]]
      BY <2>2 DEF SnapshotInv, SnapshotFields
    <3> QED BY <2>1, <3>1, Zenon DEF SnapshotInv, SnapshotFields
  <2>4. NeverAhead'
    BY <2>1 DEF SnapshotInv, SnapshotFields, NeverAhead
  <2>5. Looking'
    BY <2>1, <2>2 DEF SnapshotInv, SnapshotFields, Looking, Disabled
  <2>6. \A r \in Sessions : snapshot[r].version # file'.version
    BY <2>1 DEF SnapshotInv, SnapshotFields, NeverAhead
  <2>7. TakenTrue'
    BY <2>1, <2>6 DEF SnapshotInv, TakenTrue
  <2> QED BY <2>3, <2>4, <2>5, <2>7 DEF SnapshotInv
\* Forgetting a snapshot, in Crash and EndEdit, is always sound.
<1>5. ASSUME NEW s \in Sessions, Crash(s) \/ EndEdit(s) PROVE SnapshotInv'
  <2>1. UNCHANGED <<file, limit>> /\ snapshot' = [snapshot EXCEPT ![s] = NoSnapshot]
    BY <1>5 DEF Crash, EndEdit
  <2>2. (pc' = pc /\ pc[s] = "idle") \/ pc' = [pc EXCEPT ![s] = "idle"]
    BY <1>5 DEF Crash, EndEdit
  <2>3. failed' = failed \/ failed' = [failed EXCEPT ![s] = FALSE]
    BY <1>5 DEF Crash, EndEdit
  <2>0. snapshot'[s] = NoSnapshot /\ \A r \in Sessions \ {s} : snapshot'[r] = snapshot[r]
    BY <2>1 DEF SnapshotInv, SnapshotFields
  <2>4. SnapshotFields'
    <3>1. /\ pc' = [r \in Sessions |-> pc'[r]]
          /\ snapshot' = [r \in Sessions |-> snapshot'[r]]
          /\ failed' \in [Sessions -> BOOLEAN]
      BY <2>1, <2>2, <2>3 DEF SnapshotInv, SnapshotFields
    <3>2. \A r \in Sessions : /\ DOMAIN snapshot'[r] = DOMAIN NoSnapshot
                             /\ snapshot'[r].version \in Nat
                             /\ snapshot'[r].disabled \in BOOLEAN
      <4>1. ASSUME NEW r \in Sessions \ {s}
            PROVE  /\ DOMAIN snapshot'[r] = DOMAIN NoSnapshot
                   /\ snapshot'[r].version \in Nat
                   /\ snapshot'[r].disabled \in BOOLEAN
        BY <2>0, Zenon DEF SnapshotInv, SnapshotFields
      <4>2. /\ DOMAIN snapshot'[s] = DOMAIN NoSnapshot
            /\ snapshot'[s].version \in Nat
            /\ snapshot'[s].disabled \in BOOLEAN
        BY <2>0, NoSnapshotFields, Zenon
      <4> QED BY <4>1, <4>2
    <3> QED BY <2>1, <3>1, <3>2 DEF SnapshotInv, SnapshotFields
  <2>5. NeverAhead' /\ TakenTrue'
    <3>1. \A r \in Sessions : snapshot'[r].version <= file.version
      BY <2>0, NoSnapshotFields DEF SnapshotInv, SnapshotFields, NeverAhead
    <3>2. \A r \in Sessions : snapshot'[r].loaded => snapshot'[r] = snapshot[r]
      BY <2>0, NoSnapshotFields
    <3> QED BY <2>1, <3>1, <3>2 DEF SnapshotInv, NeverAhead, TakenTrue
  <2>6. Looking'
    BY <2>1, <2>2, <2>3 DEF SnapshotInv, SnapshotFields, Looking, Disabled
  <2> QED BY <2>4, <2>5, <2>6 DEF SnapshotInv
<1>6. ASSUME NEW s \in Sessions, BeginEdit(s) \/ TakeFails(s) PROVE SnapshotInv'
  <2>1. UNCHANGED <<file, snapshot, limit, failed>>
    BY <1>6 DEF BeginEdit, TakeFails
  <2>2. pc' = pc \/ pc' = [pc EXCEPT ![s] = "idle"]
    BY <1>6 DEF BeginEdit, TakeFails
  <2>3. SnapshotFields' /\ \A r \in Sessions : pc'[r] = "look" => pc[r] = "look"
    BY <2>1, <2>2 DEF SnapshotInv, SnapshotFields
  <2> QED BY <2>1, <2>3, SnapshotKept
<1>7. ASSUME NEW s \in Sessions, Look(s) PROVE SnapshotInv'
  <2>1. UNCHANGED <<file, limit, failed>> /\ pc' = [pc EXCEPT ![s] = "look"]
    BY <1>7 DEF Look
  <2>2. snapshot'[s].version = file.version /\ ~snapshot'[s].loaded
        /\ snapshot'[s].limit = limit[s] /\ snapshot'[s].disabled = Disabled(s)
        /\ DOMAIN snapshot'[s] = DOMAIN NoSnapshot
    BY <1>7 DEF Look, SnapshotInv, SnapshotFields, NoSnapshot
  <2>3. \A r \in Sessions \ {s} : snapshot'[r] = snapshot[r]
    BY <1>7 DEF Look, SnapshotInv, SnapshotFields
  <2>4. snapshot' = [r \in Sessions |-> snapshot'[r]]
    BY <1>7 DEF Look, SnapshotInv, SnapshotFields
  <2>5. Disabled(s) \in BOOLEAN
    BY DEF Disabled
  <2>6. SnapshotFields'
    BY <2>1, <2>2, <2>3, <2>4, <2>5 DEF SnapshotInv, SnapshotFields
  <2>9. NeverAhead'
    BY <2>1, <2>2, <2>3 DEF SnapshotInv, SnapshotFields, NeverAhead
  <2>7. TakenTrue'
    BY <2>1, <2>2, <2>3 DEF SnapshotInv, TakenTrue
  <2>8. Looking'
    BY <2>1, <2>2, <2>3 DEF SnapshotInv, SnapshotFields, Looking, Disabled
  <2> QED BY <2>6, <2>9, <2>7, <2>8 DEF SnapshotInv
\* The entries are read from the file of the version then: of the snapshot's or of a later one.
<1>8. ASSUME NEW s \in Sessions, Take(s) PROVE SnapshotInv'
  <2>1. UNCHANGED <<file, limit, failed>> /\ pc' = [pc EXCEPT ![s] = "idle"] /\ pc[s] = "look"
    BY <1>8 DEF Take
  <2>2. snapshot'[s].entries = View(s)
        /\ snapshot'[s].version = snapshot[s].version
        /\ snapshot'[s].limit = snapshot[s].limit
        /\ snapshot'[s].disabled = snapshot[s].disabled
        /\ DOMAIN snapshot'[s] = DOMAIN NoSnapshot
    BY <1>8 DEF Take, SnapshotInv, SnapshotFields, NoSnapshot
  <2>3. \A r \in Sessions \ {s} : snapshot'[r] = snapshot[r]
    BY <1>8 DEF Take, SnapshotInv, SnapshotFields
  <2>4. snapshot' = [r \in Sessions |-> snapshot'[r]]
    BY <1>8 DEF Take, SnapshotInv, SnapshotFields
  <2>5. SnapshotFields'
    BY <2>1, <2>2, <2>3, <2>4 DEF SnapshotInv, SnapshotFields
  <2>6. NeverAhead' /\ Looking'
    BY <2>1, <2>2, <2>3 DEF SnapshotInv, SnapshotFields, NeverAhead, Looking, Disabled
  <2>7. snapshot[s].limit = limit[s] /\ snapshot[s].disabled = Disabled(s)
    BY <2>1 DEF SnapshotInv, Looking
  <2>8. TakenTrue'
    BY <2>1, <2>2, <2>3, <2>7 DEF SnapshotInv, TakenTrue, View
  <2> QED BY <2>5, <2>6, <2>8 DEF SnapshotInv
<1>9. ASSUME Next PROVE SnapshotInv'
  <2>1. PICK s \in Sessions :
           Call(s) \/ Acquire(s) \/ LockFails(s) \/ Holding(s) \/ Crash(s) \/ Edit(s)
    BY <1>9, Steps
  <2> QED
    BY <2>1, <1>2, <1>3, <1>4, <1>5, <1>6, <1>7, <1>8, Zenon DEF Holding, Edit
<1> QED BY <1>1, <1>9

LEMMA SnapshotInvTrue == SnapshotInv => SnapshotTrue
BY DEF SnapshotInv, SnapshotFields, TakenTrue, SnapshotTrue, IsCurrent, View

\* A snapshot the editor is allowed to keep is what a fresh read of the file would give, for any
\* sessions rewriting the file and any limits (history_snapshot_is_current).
THEOREM SnapshotsStayTrue == Spec => []SnapshotTrue
<1>1. Init => SnapshotInv BY SnapshotInit
<1>2. SnapshotInv /\ [Next]_vars => SnapshotInv' BY SnapshotNext
<1>3. SnapshotInv => SnapshotTrue BY SnapshotInvTrue
<1> QED BY <1>1, <1>2, <1>3, PTL DEF Spec

(***************************************************************************)
(* The lock comes back.                                                    *)
(***************************************************************************)

LEMMA LockInit == Init => LockReturned
BY NobodyIsNoSession DEF Init, LockReturned

LEMMA LockNext == Inv /\ LockReturned /\ [Next]_vars => LockReturned'
<1> SUFFICES ASSUME Inv, LockReturned, [Next]_vars PROVE LockReturned'
  OBVIOUS
<1> USE DEF InLock, AtRest
<1>1. CASE UNCHANGED vars
  BY <1>1 DEF LockReturned, vars, session
<1>2. ASSUME NEW s \in Sessions, Call(s) PROVE LockReturned'
  <2>1. lock' = lock /\ pc[s] = "idle" /\ \A r \in Sessions \ {s} : pc'[r] = pc[r]
    BY <1>2 DEF Call, Push, Update, RemoveLast, Clear, Load, Free, Begin, Inv, Fields
  <2> QED BY <2>1 DEF LockReturned
<1>3. ASSUME NEW s \in Sessions, LockFails(s) PROVE LockReturned'
  BY <1>3 DEF LockFails, Return, LockReturned, Inv, Fields
<1>4. ASSUME NEW s \in Sessions, Acquire(s) PROVE LockReturned'
  BY <1>4 DEF Acquire, LockReturned, Inv, Fields
<1>5. ASSUME NEW s \in Sessions, Read(s) \/ ReadFails(s) \/ Rename(s) \/ WriteFails(s)
      PROVE  LockReturned'
  BY <1>5 DEF Read, ReadFails, Rename, WriteFails, LockReturned, Inv, Fields
<1>6. ASSUME NEW s \in Sessions, Unlock(s) \/ Crash(s) PROVE LockReturned'
  BY <1>6, NobodyIsNoSession DEF Unlock, Crash, Return, LockReturned, Inv, Fields, HolderOnly
<1>7. ASSUME NEW s \in Sessions, Edit(s) PROVE LockReturned'
  <2>1. lock' = lock /\ pc[s] \in AtRest
    BY <1>7, EditKinds
  <2>2. \A r \in Sessions \ {s} : pc'[r] = pc[r]
    BY <1>7, EditKinds DEF Inv, Fields
  <2> QED BY <2>1, <2>2 DEF LockReturned
<1>8. ASSUME Next PROVE LockReturned'
  <2>1. PICK s \in Sessions :
           Call(s) \/ Acquire(s) \/ LockFails(s) \/ Holding(s) \/ Crash(s) \/ Edit(s)
    BY <1>8, Steps
  <2> QED BY <2>1, <1>2, <1>3, <1>4, <1>5, <1>6, <1>7, Zenon DEF Holding
<1> QED BY <1>1, <1>8

\* No operation of any session leaves the lock behind (history_unlock on every way out).
THEOREM LockComesBack == Spec => []LockReturned
<1>1. Init => Inv /\ LockReturned BY InvInit, LockInit
<1>2. Inv /\ LockReturned /\ [Next]_vars => Inv' /\ LockReturned' BY InvNext, LockNext
<1> QED BY <1>1, <1>2, PTL DEF Spec

(***************************************************************************)
(* Induction over lists, and what a recursion over them computes.          *)
(***************************************************************************)

Less == {p \in Nat \X Nat : p[1] < p[2]}

LEMMA LeastNatural ==
    ASSUME NEW T, T \subseteq Nat, T # {}
    PROVE  \E n \in T : \A m \in T : n <= m
<1>1. Less = OpToRel(<, Nat)
  BY DEF Less, OpToRel
<1>2. IsWellFoundedOn(Less, Nat)
  BY <1>1, NatLessThanWellFounded
<1>3. PICK n \in T : \A m \in T : ~(<<m, n>> \in Less)
  BY <1>2, WFMin
<1>4. ASSUME NEW m \in T PROVE n <= m
  <2>1. ~(m < n)
    BY <1>3 DEF Less
  <2>2. m \in Nat /\ n \in Nat
    OBVIOUS
  <2> QED BY <2>1, <2>2
<1> QED BY <1>4

\* A set of numbers that holds 0 and the next of each that it holds.
LEMMA Naturals ==
    ASSUME NEW T, 0 \in T, \A n \in Nat : n \in T => n + 1 \in T
    PROVE  Nat \subseteq T
<1> SUFFICES ASSUME Nat \ T # {} PROVE FALSE
  OBVIOUS
<1>1. PICK n \in Nat \ T : \A m \in Nat \ T : n <= m
  BY LeastNatural
<1>2. n # 0 /\ n \in Nat
  BY <1>1
<1>3. n - 1 \in Nat /\ ~(n <= n - 1)
  BY <1>2
<1>4. n - 1 \in T
  BY <1>1, <1>3
<1>5. (n - 1) + 1 \in T
  BY <1>3, <1>4
<1>6. (n - 1) + 1 = n
  BY <1>2
<1> QED BY <1>1, <1>5, <1>6

LEMMA ListParts ==
    ASSUME NEW S, NEW list \in Seq(S), list # <<>>
    PROVE  /\ Front(list) \in Seq(S) /\ Last(list) \in S
           /\ list = Append(Front(list), Last(list))
           /\ Len(Front(list)) = Len(list) - 1 /\ Len(list) \in Nat \ {0}
<1>1. Len(list) \in Nat \ {0} /\ DOMAIN list = 1 .. Len(list)
  OBVIOUS
<1>2. Front(list) = SubSeq(list, 1, Len(list) - 1) /\ Last(list) = list[Len(list)]
  BY DEF Front, Last
<1> QED BY <1>1, <1>2

LEMMA ListGrown ==
    ASSUME NEW S, NEW list \in Seq(S), NEW x \in S
    PROVE  /\ Append(list, x) \in Seq(S) /\ Append(list, x) # <<>>
           /\ Front(Append(list, x)) = list /\ Last(Append(list, x)) = x
           /\ Len(Append(list, x)) = Len(list) + 1
<1>1. /\ Append(list, x) \in Seq(S) /\ Append(list, x) # <<>>
      /\ Len(Append(list, x)) = Len(list) + 1 /\ Append(list, x)[Len(list) + 1] = x
  BY AppendProperties
<1>2. Last(Append(list, x)) = x
  BY <1>1 DEF Last
<1>3. Front(Append(list, x)) = list
  <2>1. Append(list, x) = Append(Front(Append(list, x)), Last(Append(list, x)))
        /\ Front(Append(list, x)) \in Seq(S)
    BY <1>1, ListParts
  <2> DEFINE front == Front(Append(list, x))
  <2>2. Append(list, x) = Append(front, x) /\ front \in Seq(S)
    BY <1>2, <2>1
  <2> HIDE DEF front
  <2>3. front = list
    BY <2>2, AppendInjective
  <2> QED BY <2>3 DEF front
<1> QED BY <1>1, <1>2, <1>3

\* A set of lists that holds the empty one and each of its own with one more entry.
LEMMA Lists ==
    ASSUME NEW S, NEW T, <<>> \in T,
           \A list \in Seq(S) : \A x \in S : list \in T => Append(list, x) \in T
    PROVE  Seq(S) \subseteq T
<1> DEFINE Lengths == {n \in Nat : \A list \in Seq(S) : Len(list) = n => list \in T}
<1>1. 0 \in Lengths
  OBVIOUS
<1>2. ASSUME NEW n \in Nat, n \in Lengths PROVE n + 1 \in Lengths
  <2>1. ASSUME NEW list \in Seq(S), Len(list) = n + 1 PROVE list \in T
    <3>1. list # <<>>
      BY <2>1
    <3>2. Front(list) \in T
      <4>1. Front(list) \in Seq(S) /\ Len(Front(list)) = n
        BY <2>1, <3>1, ListParts
      <4> QED BY <1>2, <4>1
    <3>3. /\ Front(list) \in Seq(S) /\ Last(list) \in S
          /\ list = Append(Front(list), Last(list))
      BY <3>1, ListParts
    <3>4. Append(Front(list), Last(list)) \in T
      BY <3>2, <3>3
    <3> QED BY <3>3, <3>4
  <2> QED BY <2>1
<1>3. Nat \subseteq Lengths
  <2> HIDE DEF Lengths
  <2> QED BY <1>1, <1>2, Naturals
<1>4. ASSUME NEW list \in Seq(S) PROVE list \in T
  <2>1. Len(list) \in Lengths
    <3>1. Len(list) \in Nat
      BY LenProperties
    <3> HIDE DEF Lengths
    <3> QED BY <1>3, <3>1
  <2>2. \A other \in Seq(S) : Len(other) = Len(list) => other \in T
    BY <2>1
  <2> QED BY <2>2
<1> QED BY <1>4

\* What a recursion over lists that starts with v and takes one step for each entry computes.
Recurses(f, S, v, step) ==
    f = [list \in Seq(S) |-> IF list = <<>> THEN v ELSE step[<<f[Front(list)], Last(list)>>]]

LEMMA Recursion ==
    ASSUME NEW S, NEW V, NEW v \in V, NEW step \in [V \X S -> V]
    PROVE  \E f \in [Seq(S) -> V] : Recurses(f, S, v, step)
<1> DEFINE Turns(list, r) == \A n \in 1 .. Len(list) : r[n] = step[<<r[n - 1], list[n]>>]
           Runs(list) == {r \in [0 .. Len(list) -> V] : r[0] = v /\ Turns(list, r)}
           Run(list) == CHOOSE r : r \in Runs(list)
           f == [list \in Seq(S) |-> Run(list)[Len(list)]]
<1>1. \A list \in Seq(S) : Runs(list) # {}
  <2> DEFINE T == {list \in Seq(S) : Runs(list) # {}}
  <2>1. <<>> \in T
    <3> DEFINE r == [n \in 0 .. 0 |-> v]
    <3>1. Len(<<>>) = 0 /\ <<>> \in Seq(S)
      BY EmptySeq
    <3>2. r \in Runs(<<>>)
      BY <3>1
    <3> QED BY <3>1, <3>2
  <2>2. ASSUME NEW list \in Seq(S), NEW x \in S, list \in T PROVE Append(list, x) \in T
    <3> DEFINE more == Append(list, x)
               k == Len(list)
    <3>1. PICK r : r \in Runs(list)
      BY <2>2
    <3>2. /\ more \in Seq(S) /\ Len(more) = k + 1 /\ k \in Nat
          /\ \A n \in 1 .. k : more[n] = list[n]
          /\ more[k + 1] = x
      BY AppendProperties, LenProperties
    <3> HIDE DEF more, k
    <3>3. /\ r \in [0 .. k -> V] /\ r[0] = v
          /\ \A n \in 1 .. k : r[n] = step[<<r[n - 1], list[n]>>]
      BY <3>1 DEF k
    <3> DEFINE q == [n \in 0 .. k + 1 |-> IF n = k + 1 THEN step[<<r[k], x>>] ELSE r[n]]
    <3>4. step[<<r[k], x>>] \in V
      BY <3>2, <3>3
    <3>5. q \in [0 .. Len(more) -> V] /\ q[0] = v
      BY <3>2, <3>3, <3>4
    <3>6. ASSUME NEW n \in 1 .. k + 1 PROVE q[n] = step[<<q[n - 1], more[n]>>]
      <4>1. CASE n = k + 1
        <5>1. q[n] = step[<<r[k], x>>] /\ q[n - 1] = r[k]
          BY <3>2, <4>1
        <5> HIDE DEF q
        <5> QED BY <3>2, <4>1, <5>1
      <4>2. CASE n # k + 1
        <5>1. n \in 1 .. k /\ q[n] = r[n] /\ q[n - 1] = r[n - 1]
          BY <3>2, <4>2
        <5> HIDE DEF q
        <5> QED BY <3>2, <3>3, <5>1
      <4> QED BY <4>1, <4>2
    <3> HIDE DEF q
    <3>7. q \in Runs(more)
      BY <3>2, <3>5, <3>6
    <3> QED BY <3>2, <3>7 DEF more
  <2> HIDE DEF T, Runs
  <2>3. Seq(S) \subseteq T
    BY <2>1, <2>2, Lists
  <2> QED BY <2>3 DEF T
<1>2. ASSUME NEW list \in Seq(S) PROVE Run(list) \in Runs(list)
  <2> HIDE DEF Runs
  <2> QED BY <1>1
<1>3. ASSUME NEW list \in Seq(S), NEW r \in Runs(list), NEW q \in Runs(list) PROVE r = q
  <2> DEFINE k == Len(list)
             T == {n \in Nat : n \in 0 .. k => r[n] = q[n]}
  <2>0. k \in Nat
    BY LenProperties
  <2> HIDE DEF k
  <2>1. /\ r \in [0 .. k -> V] /\ r[0] = v /\ \A n \in 1 .. k : r[n] = step[<<r[n - 1], list[n]>>]
        /\ q \in [0 .. k -> V] /\ q[0] = v /\ \A n \in 1 .. k : q[n] = step[<<q[n - 1], list[n]>>]
    BY DEF k
  <2>2. 0 \in T
    BY <2>1
  <2>3. ASSUME NEW n \in Nat, n \in T PROVE n + 1 \in T
    <3> SUFFICES ASSUME n + 1 \in 0 .. k PROVE r[n + 1] = q[n + 1]
      OBVIOUS
    <3>1. n \in 0 .. k /\ n + 1 \in 1 .. k /\ (n + 1) - 1 = n
      BY <2>0
    <3>2. r[n] = q[n]
      BY <2>3, <3>1
    <3> DEFINE m == n + 1
    <3>3. m \in 1 .. k /\ m - 1 = n
      BY <3>1
    <3> HIDE DEF m
    <3>4. r[m] = step[<<r[m - 1], list[m]>>] /\ q[m] = step[<<q[m - 1], list[m]>>]
      BY <2>1, <3>3
    <3>5. r[m] = q[m]
      BY <3>2, <3>3, <3>4
    <3> QED BY <3>5 DEF m
  <2>4. Nat \subseteq T
    <3> HIDE DEF T
    <3> QED BY <2>2, <2>3, Naturals
  <2>5. \A n \in 0 .. k : r[n] = q[n]
    BY <2>0, <2>4
  <2>6. r = [n \in 0 .. k |-> r[n]] /\ q = [n \in 0 .. k |-> q[n]]
    BY <2>1
  <2> QED BY <2>5, <2>6
<1>4. ASSUME NEW list \in Seq(S) PROVE f[list] \in V
  <2>1. Len(list) \in 0 .. Len(list) /\ Run(list) \in [0 .. Len(list) -> V]
    <3> HIDE DEF Run
    <3> QED BY <1>2, LenProperties
  <2> HIDE DEF Run
  <2> QED BY <2>1
<1>5. f[<<>>] = v
  <2>1. <<>> \in Seq(S) /\ Len(<<>>) = 0
    BY EmptySeq
  <2>2. Run(<<>>)[0] = v
    <3> HIDE DEF Run
    <3> QED BY <1>2, <2>1
  <2> HIDE DEF Run
  <2> QED BY <2>1, <2>2
<1>6. ASSUME NEW list \in Seq(S), list # <<>> PROVE f[list] = step[<<f[Front(list)], Last(list)>>]
  <2> DEFINE k == Len(list)
             front == Front(list)
             r == Run(list)
             q == [n \in 0 .. k - 1 |-> r[n]]
  <2>1. front \in Seq(S) /\ Len(front) = k - 1 /\ k \in Nat \ {0} /\ Last(list) = list[k]
    BY <1>6, ListParts DEF Last
  <2>2. \A n \in 1 .. k - 1 : front[n] = list[n]
    <3>1. front = SubSeq(list, 1, k - 1)
      BY DEF Front
    <3>2. k \in Nat
      BY <2>1
    <3> HIDE DEF k, front
    <3> QED BY <3>1, <3>2
  <2>3. r \in Runs(list)
    <3> HIDE DEF Run, Runs
    <3> QED BY <1>2
  <2> HIDE DEF k, front, r
  <2>4. r \in [0 .. k -> V] /\ r[0] = v /\ \A n \in 1 .. k : r[n] = step[<<r[n - 1], list[n]>>]
    BY <2>3 DEF k
  <2>5. q \in Runs(front)
    <3>1. q \in [0 .. Len(front) -> V] /\ q[0] = v
      BY <2>1, <2>4
    <3>2. ASSUME NEW n \in 1 .. Len(front) PROVE q[n] = step[<<q[n - 1], front[n]>>]
      <4>1. n \in 1 .. k /\ q[n] = r[n] /\ q[n - 1] = r[n - 1] /\ front[n] = list[n]
        BY <2>1, <2>2
      <4> HIDE DEF q
      <4> QED BY <2>4, <4>1
    <3> HIDE DEF q
    <3> QED BY <3>1, <3>2
  <2>6. Run(front) = q
    <3> HIDE DEF Run, Runs, q
    <3> QED BY <1>2, <1>3, <2>1, <2>5
  <2>7. f[front] = r[k - 1]
    <3>1. f[front] = Run(front)[Len(front)]
      BY <2>1
    <3> HIDE DEF f, Run
    <3> QED BY <2>1, <2>6, <3>1
  <2>8. f[list] = r[k]
    BY DEF r, k
  <2>9. r[k] = step[<<r[k - 1], list[k]>>]
    BY <2>1, <2>4
  <2> HIDE DEF f
  <2> QED BY <2>1, <2>7, <2>8, <2>9 DEF front
<1>7. f \in [Seq(S) -> V]
  <2>1. f = [list \in Seq(S) |-> f[list]]
    OBVIOUS
  <2> HIDE DEF f
  <2> QED BY <1>4, <2>1
<1>8. f = [list \in Seq(S) |-> IF list = <<>> THEN v ELSE step[<<f[Front(list)], Last(list)>>]]
  <2> HIDE DEF f
  <2> QED BY <1>5, <1>6, <1>7
<1> HIDE DEF f
<1> QED BY <1>7, <1>8 DEF Recurses

(***************************************************************************)
(* What the operations make of a list.                                     *)
(***************************************************************************)

LEMMA OfIs ==
    ASSUME NEW commands
    PROVE  /\ Of(commands, <<>>) = <<>>
           /\ \A list \in Seq(Entries) :
                /\ Of(commands, list) \in Seq(Entries)
                /\ \A entry \in Entries : Of(commands, Append(list, entry)) =
                        IF entry.command \in commands THEN Append(Of(commands, list), entry)
                        ELSE Of(commands, list)
<1> DEFINE Histories == Seq(Entries)
           Turn(f, read) == IF read = <<>> THEN <<>>
                            ELSE IF Last(read).command \in commands THEN Append(f[Front(read)], Last(read))
                            ELSE f[Front(read)]
           Body(f) == [read \in Histories |-> Turn(f, read)]
           of == CHOOSE f : f = Body(f)
           step == [p \in Histories \X Entries |-> IF p[2].command \in commands THEN Append(p[1], p[2]) ELSE p[1]]
<1>1. \A list : Of(commands, list) = of[list]
  BY DEF Of
<1>2. <<>> \in Histories
  BY EmptySeq
<1>3. step \in [Histories \X Entries -> Histories]
  BY AppendProperties
<1>4. PICK f \in [Histories -> Histories] :
        f = [list \in Histories |-> IF list = <<>> THEN <<>> ELSE step[<<f[Front(list)], Last(list)>>]]
  <2> DEFINE V == Histories
             v == <<>>
  <2> HIDE DEF step, v, V
  <2>1. v \in V /\ step \in [V \X Entries -> V]
    BY <1>2, <1>3 DEF v, V
  <2>2. \E f \in [Seq(Entries) -> V] : Recurses(f, Entries, v, step)
    BY <2>1, Recursion
  <2> QED BY <2>2 DEF V, v, Recurses
<1>5. f = Body(f)
  <2>1. ASSUME NEW list \in Histories PROVE f[list] = Turn(f, list)
    <3>1. CASE list = <<>>
      BY <1>2, <1>4, <3>1
    <3>2. CASE list # <<>>
      <4>1. Front(list) \in Histories /\ Last(list) \in Entries
        BY <3>2, ListParts
      <4>2. f[Front(list)] \in Histories
        BY <1>4, <4>1
      <4>3. f[list] = step[<<f[Front(list)], Last(list)>>]
        <5> HIDE DEF step
        <5> QED BY <1>4, <3>2
      <4>4. step[<<f[Front(list)], Last(list)>>] = Turn(f, list)
        BY <3>2, <4>1, <4>2
      <4> QED BY <4>3, <4>4
    <3> QED BY <3>1, <3>2
  <2>2. f = [list \in Histories |-> f[list]]
    BY <1>4
  <2> HIDE DEF Turn
  <2> QED BY <2>1, <2>2
<1>6. of = Body(of)
  <2> HIDE DEF Body
  <2> QED BY <1>5
<1> HIDE DEF of
<1>7. \A list \in Histories : of[list] = Turn(of, list)
  <2> HIDE DEF Turn
  <2> QED BY <1>6
<1>8. of[<<>>] = <<>>
  BY <1>2, <1>7
<1>9. ASSUME NEW list \in Histories, NEW entry \in Entries
      PROVE  of[Append(list, entry)] =
                IF entry.command \in commands THEN Append(of[list], entry) ELSE of[list]
  <2> DEFINE more == Append(list, entry)
  <2>1. more \in Histories /\ more # <<>> /\ Front(more) = list /\ Last(more) = entry
    BY ListGrown
  <2> HIDE DEF more
  <2>2. of[more] = IF entry.command \in commands THEN Append(of[list], entry) ELSE of[list]
    BY <1>7, <2>1
  <2> QED BY <2>2 DEF more
<1>10. \A list \in Histories : of[list] \in Histories
  <2> DEFINE T == {list \in Histories : of[list] \in Histories}
  <2>1. <<>> \in T
    BY <1>2, <1>8
  <2>2. ASSUME NEW list \in Histories, NEW entry \in Entries, list \in T PROVE Append(list, entry) \in T
    <3>1. Append(list, entry) \in Histories /\ Append(of[list], entry) \in Histories
      BY <2>2, AppendProperties
    <3> QED BY <1>9, <2>2, <3>1
  <2>3. Histories \subseteq T
    <3> HIDE DEF T
    <3> QED BY <2>1, <2>2, Lists
  <2> QED BY <2>3
<1> HIDE DEF Body, Turn
<1> QED BY <1>1, <1>8, <1>9, <1>10

LEMMA DistinctIs ==
    /\ Distinct(<<>>) = <<>>
    /\ \A list \in Seq(Entries) :
        /\ Distinct(list) \in Seq(Entries)
        /\ \A entry \in Entries :
            Distinct(Append(list, entry)) = Append(Without(Distinct(list), entry.command), entry)
<1> DEFINE Histories == Seq(Entries)
           Turn(f, read) == IF read = <<>> THEN <<>>
                            ELSE Append(Without(f[Front(read)], Last(read).command), Last(read))
           Body(f) == [read \in Histories |-> Turn(f, read)]
           distinct == CHOOSE f : f = Body(f)
           step == [p \in Histories \X Entries |-> Append(Without(p[1], p[2].command), p[2])]
<1>1. \A list : Distinct(list) = distinct[list]
  BY DEF Distinct
<1>2. <<>> \in Histories
  BY EmptySeq
<1>3. \A list \in Histories : \A c : Without(list, c) \in Histories
  BY OfIs DEF Without
<1>4. step \in [Histories \X Entries -> Histories]
  BY <1>3, AppendProperties
<1>5. PICK f \in [Histories -> Histories] :
        f = [list \in Histories |-> IF list = <<>> THEN <<>> ELSE step[<<f[Front(list)], Last(list)>>]]
  <2> DEFINE V == Histories
             v == <<>>
  <2> HIDE DEF step, v, V
  <2>1. v \in V /\ step \in [V \X Entries -> V]
    BY <1>2, <1>4 DEF v, V
  <2>2. \E f \in [Seq(Entries) -> V] : Recurses(f, Entries, v, step)
    BY <2>1, Recursion
  <2> QED BY <2>2 DEF V, v, Recurses
<1>6. f = Body(f)
  <2>1. ASSUME NEW list \in Histories PROVE f[list] = Turn(f, list)
    <3>1. CASE list = <<>>
      BY <1>2, <1>5, <3>1
    <3>2. CASE list # <<>>
      <4>1. Front(list) \in Histories /\ Last(list) \in Entries
        BY <3>2, ListParts
      <4>2. f[Front(list)] \in Histories
        BY <1>5, <4>1
      <4>3. f[list] = step[<<f[Front(list)], Last(list)>>]
        <5> HIDE DEF step
        <5> QED BY <1>5, <3>2
      <4>4. step[<<f[Front(list)], Last(list)>>] = Turn(f, list)
        BY <3>2, <4>1, <4>2
      <4> QED BY <4>3, <4>4
    <3> QED BY <3>1, <3>2
  <2>2. f = [list \in Histories |-> f[list]]
    BY <1>5
  <2> HIDE DEF Turn
  <2> QED BY <2>1, <2>2
<1>7. distinct = Body(distinct)
  <2> HIDE DEF Body
  <2> QED BY <1>6
<1> HIDE DEF distinct
<1>8. \A list \in Histories : distinct[list] = Turn(distinct, list)
  <2> HIDE DEF Turn
  <2> QED BY <1>7
<1>9. distinct[<<>>] = <<>>
  BY <1>2, <1>8
<1>10. ASSUME NEW list \in Histories, NEW entry \in Entries
       PROVE  distinct[Append(list, entry)] = Append(Without(distinct[list], entry.command), entry)
  <2> DEFINE more == Append(list, entry)
  <2>1. more \in Histories /\ more # <<>> /\ Front(more) = list /\ Last(more) = entry
    BY ListGrown
  <2> HIDE DEF more
  <2>2. distinct[more] = Append(Without(distinct[list], entry.command), entry)
    BY <1>8, <2>1
  <2> QED BY <2>2 DEF more
<1>11. \A list \in Histories : distinct[list] \in Histories
  <2> DEFINE T == {list \in Histories : distinct[list] \in Histories}
  <2>1. <<>> \in T
    BY <1>2, <1>9
  <2>2. ASSUME NEW list \in Histories, NEW entry \in Entries, list \in T PROVE Append(list, entry) \in T
    <3>1. Append(list, entry) \in Histories
      BY <2>2, AppendProperties
    <3>2. Append(Without(distinct[list], entry.command), entry) \in Histories
      BY <1>3, <2>2, AppendProperties
    <3> QED BY <1>10, <3>1, <3>2
  <2>3. Histories \subseteq T
    <3> HIDE DEF T
    <3> QED BY <2>1, <2>2, Lists
  <2> QED BY <2>3
<1> HIDE DEF Body, Turn
<1> QED BY <1>1, <1>9, <1>10, <1>11

LEMMA WithoutIs ==
    ASSUME NEW command
    PROVE  /\ Without(<<>>, command) = <<>>
           /\ \A list \in Seq(Entries) :
                /\ Without(list, command) \in Seq(Entries)
                /\ \A entry \in Entries : Without(Append(list, entry), command) =
                        IF entry.command # command THEN Append(Without(list, command), entry)
                        ELSE Without(list, command)
<1>1. \A entry \in Entries : entry.command \in Commands \ {command} <=> entry.command # command
  BY DEF Entries
<1> QED BY <1>1, OfIs DEF Without

LEMMA SameIs ==
    ASSUME NEW command
    PROVE  /\ Same(<<>>, command) = <<>>
           /\ \A list \in Seq(Entries) :
                /\ Same(list, command) \in Seq(Entries)
                /\ \A entry \in Entries : Same(Append(list, entry), command) =
                        IF entry.command = command THEN Append(Same(list, command), entry)
                        ELSE Same(list, command)
BY OfIs DEF Same

\* Taking the entries of one command away takes none of another.
LEMMA SameWithout ==
    ASSUME NEW list \in Seq(Entries), NEW command, NEW other
    PROVE  Same(Without(list, other), command) = IF command = other THEN <<>> ELSE Same(list, command)
<1> DEFINE Right(l) == Same(Without(l, other), command) = IF command = other THEN <<>> ELSE Same(l, command)
           T == {l \in Seq(Entries) : Right(l)}
<1>1. <<>> \in T
  BY EmptySeq, WithoutIs, SameIs
<1>2. ASSUME NEW l \in Seq(Entries), NEW entry \in Entries, l \in T PROVE Append(l, entry) \in T
  <2>1. Append(l, entry) \in Seq(Entries) /\ Without(l, other) \in Seq(Entries)
    BY AppendProperties, WithoutIs
  <2>2. Right(l)
    BY <1>2
  <2>3. CASE entry.command = other
    <3>1. Without(Append(l, entry), other) = Without(l, other)
      BY <2>3, WithoutIs
    <3>2. command # other => Same(Append(l, entry), command) = Same(l, command)
      BY <2>3, SameIs
    <3> QED BY <2>1, <2>2, <3>1, <3>2
  <2>4. CASE entry.command # other
    <3>1. Without(Append(l, entry), other) = Append(Without(l, other), entry)
      BY <2>4, WithoutIs
    <3>2. Same(Append(Without(l, other), entry), command) =
            IF entry.command = command THEN Append(Same(Without(l, other), command), entry)
            ELSE Same(Without(l, other), command)
      BY <2>1, SameIs
    <3>3. Same(Append(l, entry), command) =
            IF entry.command = command THEN Append(Same(l, command), entry) ELSE Same(l, command)
      BY SameIs
    <3>4. CASE command = other
      BY <2>1, <2>2, <2>4, <3>1, <3>2, <3>4
    <3>5. CASE command # other
      <4>1. Same(Without(l, other), command) = Same(l, command)
        BY <2>2, <3>5
      <4>2. Same(Append(Without(l, other), entry), command) = Same(Append(l, entry), command)
        BY <3>2, <3>3, <4>1
      <4>3. Same(Without(Append(l, entry), other), command) = Same(Append(l, entry), command)
        BY <3>1, <4>2
      <4> QED BY <2>1, <3>5, <4>3
    <3> QED BY <3>4, <3>5
  <2> QED BY <2>3, <2>4
<1>3. Seq(Entries) \subseteq T
  <2> HIDE DEF T
  <2> QED BY <1>1, <1>2, Lists
<1> QED BY <1>3

\* Of equal entries the newest stays.
LEMMA DistinctKeepsNewest ==
    ASSUME NEW list \in Seq(Entries), NEW command, Same(list, command) # <<>>
    PROVE  /\ Same(Distinct(list), command) # <<>>
           /\ Newest(Distinct(list), command) = Newest(list, command)
<1> DEFINE Right(l) == Same(l, command) # <<>> =>
              /\ Same(Distinct(l), command) # <<>>
              /\ Last(Same(Distinct(l), command)) = Last(Same(l, command))
           T == {l \in Seq(Entries) : Right(l)}
<1>1. <<>> \in T
  BY EmptySeq, SameIs
<1>2. ASSUME NEW l \in Seq(Entries), NEW entry \in Entries, l \in T PROVE Append(l, entry) \in T
  <2> DEFINE kept == Without(Distinct(l), entry.command)
  <2>1. /\ Append(l, entry) \in Seq(Entries) /\ Distinct(l) \in Seq(Entries)
        /\ kept \in Seq(Entries) /\ Distinct(Append(l, entry)) = Append(kept, entry)
    BY AppendProperties, DistinctIs, WithoutIs
  <2>2. /\ Same(Append(l, entry), command) =
                IF entry.command = command THEN Append(Same(l, command), entry) ELSE Same(l, command)
        /\ Same(Append(kept, entry), command) =
                IF entry.command = command THEN Append(Same(kept, command), entry) ELSE Same(kept, command)
    <3> HIDE DEF kept
    <3> QED BY <2>1, SameIs
  <2>3. CASE entry.command = command
    <3>1. Same(l, command) \in Seq(Entries) /\ Same(kept, command) \in Seq(Entries)
      <4> HIDE DEF kept
      <4> QED BY <2>1, SameIs
    <3>2. /\ Append(Same(kept, command), entry) # <<>>
          /\ Last(Append(Same(kept, command), entry)) = entry
          /\ Last(Append(Same(l, command), entry)) = entry
      <4> HIDE DEF kept
      <4> QED BY <3>1, ListGrown
    <3> HIDE DEF kept
    <3> QED BY <2>1, <2>2, <2>3, <3>2
  <2>4. CASE entry.command # command
    <3>1. Same(kept, command) = Same(Distinct(l), command)
      BY <2>1, <2>4, SameWithout
    <3>2. Right(l)
      BY <1>2
    <3> HIDE DEF kept
    <3> QED BY <2>1, <2>2, <2>4, <3>1, <3>2
  <2> QED BY <2>3, <2>4
<1>3. Seq(Entries) \subseteq T
  <2> HIDE DEF T
  <2> QED BY <1>1, <1>2, Lists
<1>4. Right(list)
  BY <1>3
<1> QED BY <1>4 DEF Newest

LEMMA PrunedIs ==
    ASSUME NEW list \in Seq(Entries), NEW most \in Nat
    PROVE  /\ Pruned(list, most) \in Seq(Entries)
           /\ Pruned(list, most) # <<>> => list # <<>> /\ most # 0
           /\ list # <<>> /\ most # 0 =>
                Pruned(list, most) # <<>> /\ Last(Pruned(list, most)) = Last(list)
<1> DEFINE k == Len(list)
<1>1. k \in Nat /\ (list # <<>> => k # 0) /\ (\A i \in 1 .. k : list[i] \in Entries) /\ Last(list) = list[k]
  BY EmptySeq, LenProperties, ElementOfSeq DEF Last
<1>2. CASE k <= most
  <2>1. Pruned(list, most) = list
    BY <1>2 DEF Pruned
  <2>2. most = 0 => list = <<>>
    BY <1>1, <1>2
  <2> QED BY <2>1, <2>2
<1>3. CASE ~(k <= most)
  <2> DEFINE part == SubSeq(list, k - most + 1, k)
  <2>1. Pruned(list, most) = part
    BY <1>3 DEF Pruned
  <2>2. k - most + 1 \in Int /\ k \in Int /\ k - most + 1 >= 1 /\ k - (k - most + 1) + 1 = most
    BY <1>1, <1>3
  <2>3. \A i \in k - most + 1 .. k : list[i] \in Entries
    BY <1>1, <2>2
  <2> HIDE DEF k
  <2>4. /\ part \in Seq(Entries)
        /\ Len(part) = IF k - most + 1 <= k THEN k - (k - most + 1) + 1 ELSE 0
        /\ \A i \in 1 .. k - (k - most + 1) + 1 : part[i] = list[(k - most + 1) + i - 1]
    BY <2>2, <2>3, SubSeqProperties
  <2> HIDE DEF part
  <2>5. Len(part) = most
    BY <1>1, <1>3, <2>4
  <2>6. ASSUME most # 0 PROVE part # <<>> /\ Last(part) = list[k]
    <3>1. most \in 1 .. most /\ most >= 1
      BY <2>6
    <3>2. part[most] = list[(k - most + 1) + most - 1] /\ (k - most + 1) + most - 1 = k
      BY <1>1, <2>2, <2>4, <3>1
    <3>3. part # <<>>
      BY <2>5, <2>6, EmptySeq
    <3> QED BY <2>5, <3>2, <3>3 DEF Last
  <2>7. most = 0 => part = <<>>
    BY <2>4, <2>5, EmptySeq
  <2>8. list # <<>>
    BY <1>1, <1>3 DEF k
  <2> QED BY <1>1, <2>1, <2>4, <2>6, <2>7, <2>8
<1> QED BY <1>2, <1>3

LEMMA CollectedIs ==
    ASSUME NEW list \in Seq(Entries), NEW most \in Nat, NEW duplicates
    PROVE  Collected(list, most, duplicates) \in Seq(Entries)
BY PrunedIs, DistinctIs DEF Collected

LEMMA NewestIs ==
    ASSUME NEW list \in Seq(Entries), NEW command, Same(list, command) # <<>>
    PROVE  Newest(list, command) \in Entries
<1>1. Same(list, command) \in Seq(Entries)
  BY SameIs
<1> QED BY <1>1, ListParts DEF Newest

LEMMA NextFrequencyIs ==
    ASSUME NEW list \in Seq(Entries), NEW command, NEW duplicates
    PROVE  NextFrequency(list, command, duplicates) \in 1 .. FrequencyLimit
<1>1. CASE duplicates \/ Same(list, command) = <<>>
  BY <1>1, FrequencyIsPositive DEF NextFrequency
<1>2. CASE ~(duplicates \/ Same(list, command) = <<>>)
  <2> DEFINE count == Newest(list, command).frequency
  <2>1. count \in 1 .. FrequencyLimit
    BY <1>2, NewestIs DEF Entries
  <2>2. NextFrequency(list, command, duplicates) =
            IF count >= FrequencyLimit THEN FrequencyLimit ELSE count + 1
    BY <1>2 DEF NextFrequency
  <2> HIDE DEF count
  <2> QED BY <2>1, <2>2, FrequencyIsPositive
<1> QED BY <1>1, <1>2

LEMMA PushedIs ==
    ASSUME NEW list \in Seq(Entries), NEW command \in Commands, NEW most \in Nat, NEW duplicates
    PROVE  /\ Pushed(list, command, most, duplicates) \in Seq(Entries)
           /\ most # 0 => Last(Pushed(list, command, most, duplicates)) =
                [command |-> command,
                 frequency |-> NextFrequency(Collected(list, most, duplicates), command, duplicates)]
<1> DEFINE read == Collected(list, most, duplicates)
           entry == [command |-> command, frequency |-> NextFrequency(read, command, duplicates)]
           others == IF duplicates THEN read ELSE Without(read, command)
<1>1. read \in Seq(Entries)
  BY CollectedIs
<1> HIDE DEF read
<1>2. entry \in Entries
  BY <1>1, NextFrequencyIs DEF Entries
<1>3. others \in Seq(Entries)
  BY <1>1, WithoutIs
<1>4. Pushed(list, command, most, duplicates) = Pruned(Append(others, entry), most)
  BY DEF Pushed, read
<1> HIDE DEF entry, others
<1>5. /\ Append(others, entry) \in Seq(Entries) /\ Append(others, entry) # <<>>
      /\ Last(Append(others, entry)) = entry
  BY <1>2, <1>3, ListGrown
<1>6. /\ Pushed(list, command, most, duplicates) \in Seq(Entries)
      /\ most # 0 => Last(Pushed(list, command, most, duplicates)) = entry
  BY <1>4, <1>5, PrunedIs
<1> QED BY <1>6 DEF entry, read

LEMMA EffectIs ==
    ASSUME NEW list \in Seq(Entries), NEW called \in AllRequests
    PROVE  Effect(called, list) \in Seq(Entries)
<1>1. /\ called.kind \in {"push", "update", "remove last", "clear", "load"}
      /\ called.kind \in {"push", "update"} => called.command \in Commands
      /\ called.limit \in Nat
  BY LimitsAreNat DEF AllRequests, Requests
<1>2. CASE called.kind = "push"
  BY <1>1, <1>2, PushedIs DEF Effect
<1>3. CASE called.kind = "update"
  <2> DEFINE read == Collected(list, called.limit, called.duplicates)
             reworded == [Last(read) EXCEPT !.command = called.command]
  <2>1. Effect(called, list) = IF read = <<>> THEN Pushed(list, called.command, called.limit, called.duplicates)
                               ELSE Append(Front(read), reworded)
    BY <1>3 DEF Effect, Updated
  <2>2. read \in Seq(Entries)
    BY <1>1, CollectedIs
  <2> HIDE DEF read
  <2>3. CASE read = <<>>
    BY <1>1, <1>3, <2>1, <2>3, PushedIs
  <2>4. CASE read # <<>>
    <3>1. Front(read) \in Seq(Entries) /\ Last(read) \in Entries
      BY <2>2, <2>4, ListParts
    <3>2. reworded \in Entries
      BY <1>1, <1>3, <3>1 DEF Entries
    <3> HIDE DEF reworded
    <3> QED BY <2>1, <2>4, <3>1, <3>2, AppendProperties
  <2> QED BY <2>3, <2>4
<1>4. CASE called.kind = "remove last"
  <2>1. Effect(called, list) = LastRemoved(list, called.limit)
    BY <1>4 DEF Effect
  <2>2. Pruned(list, called.limit) \in Seq(Entries)
    BY <1>1, PrunedIs
  <2> QED BY <2>1, <2>2, ListParts DEF LastRemoved
<1>5. CASE called.kind = "clear"
  BY <1>5, EmptySeq, ClearEmpties
<1>6. CASE called.kind = "load"
  BY <1>1, <1>6, CollectedIs DEF Effect
<1> QED BY <1>1, <1>2, <1>3, <1>4, <1>5, <1>6

(***************************************************************************)
(* Types.                                                                  *)
(***************************************************************************)

Snapshots == [loaded : BOOLEAN, disabled : BOOLEAN, limit : Limits \cup {0},
              pending : Texts, version : Nat, entries : Seq(Entries)]

LEMMA TypeInit == Init => TypeOK
<1> SUFFICES ASSUME Init PROVE TypeOK
  OBVIOUS
<1>1. <<>> \in Seq(Entries)
  BY EmptySeq
<1>2. file \in [version : Nat, entries : Seq(Entries)]
  <2>1. CASE file \in [version : {0}, entries : {<<>>}]
    <3>1. file = [version |-> 0, entries |-> <<>>]
      BY <2>1
    <3> QED BY <1>1, <3>1
  <2>2. CASE file \in [version : {1}, entries : InitialLists]
    <3>1. file.entries \in InitialLists /\ file.version = 1 /\ file = [version |-> 1, entries |-> file.entries]
      BY <2>2
    <3>2. file.entries \in Seq(Entries)
      BY <3>1, InitialListsAreLists
    <3> QED BY <3>1, <3>2
  <2> QED BY <2>1, <2>2 DEF Init
<1>3. NoSnapshot \in Snapshots
  BY <1>1 DEF NoSnapshot, Snapshots, Texts
<1>4. /\ lock \in Sessions \cup {Nobody}
      /\ pc \in [Sessions -> {"idle", "lock", "read", "rename", "unlock", "look"}]
      /\ request \in [Sessions -> AllRequests \cup {NoRequest}]
      /\ draft \in [Sessions -> Seq(Entries)]
      /\ applied \in [Sessions -> BOOLEAN]
      /\ result \in [Sessions -> {"none", "ok", "failed"}]
      /\ limit \in [Sessions -> Limits]
      /\ failed \in [Sessions -> BOOLEAN]
      /\ pending \in [Sessions -> Texts]
      /\ calls \in Nat
  BY <1>1 DEF Init, Texts
<1>5. snapshot \in [Sessions -> Snapshots]
  BY <1>3 DEF Init
<1> QED BY <1>2, <1>4, <1>5 DEF TypeOK, Snapshots

LEMMA CallTyped ==
    ASSUME TypeOK, Inv, NEW s \in Sessions, Call(s)
    PROVE  TypeOK'
<1>1. /\ UNCHANGED <<file, lock, draft, applied>> /\ limit' \in [Sessions -> Limits]
      /\ \/ UNCHANGED <<pc, request, result>>
         \/ \E called \in AllRequests :
                /\ request' = [request EXCEPT ![s] = called]
                /\ pc' = [pc EXCEPT ![s] = "lock"]
                /\ result' = [result EXCEPT ![s] = "none"]
  BY CallKinds
<1>2. /\ pc' \in [Sessions -> {"idle", "lock", "read", "rename", "unlock", "look"}]
      /\ request' \in [Sessions -> AllRequests \cup {NoRequest}]
      /\ result' \in [Sessions -> {"none", "ok", "failed"}]
  <2>1. CASE UNCHANGED <<pc, request, result>>
    BY <2>1 DEF TypeOK
  <2>2. CASE ~UNCHANGED <<pc, request, result>>
    <3>1. PICK called \in AllRequests :
                /\ request' = [request EXCEPT ![s] = called]
                /\ pc' = [pc EXCEPT ![s] = "lock"]
                /\ result' = [result EXCEPT ![s] = "none"]
      BY <1>1, <2>2
    <3> QED BY <3>1 DEF TypeOK
  <2> QED BY <2>1, <2>2
<1>3. UNCHANGED <<failed, snapshot>> /\ calls' = calls + 1
  BY DEF Call, Push, Update, RemoveLast, Clear, Load, Free, Begin
<1>4. pending' = pending \/ \E text \in Texts : pending' = [pending EXCEPT ![s] = text]
  <2>1. Nobody \in Texts /\ \A c \in Commands : c \in Texts
    BY DEF Texts
  <2> QED BY <2>1 DEF Call, Push, Update, RemoveLast, Clear, Load
<1>5. pending' \in [Sessions -> Texts]
  BY <1>4 DEF TypeOK
<1> QED BY <1>1, <1>2, <1>3, <1>5 DEF TypeOK

LEMMA WriteTyped ==
    ASSUME TypeOK, Inv, NEW s \in Sessions,
           Acquire(s) \/ LockFails(s) \/ Read(s) \/ ReadFails(s) \/ Rename(s) \/ WriteFails(s) \/ Unlock(s)
    PROVE  TypeOK'
<1>1. <<>> \in Seq(Entries)
  BY EmptySeq
<1>2. CASE Acquire(s)
  BY <1>1, <1>2 DEF Acquire, TypeOK
<1>3. CASE LockFails(s) \/ Unlock(s)
  <2>1. UNCHANGED <<file, limit, pending, snapshot, calls>> /\ lock' \in {lock, Nobody}
        /\ \E b \in BOOLEAN : failed' \in {failed, [failed EXCEPT ![s] = b]}
    BY <1>3 DEF LockFails, Unlock
  <2>2. Return(s)
    BY <1>3 DEF LockFails, Unlock
  <2>3. /\ pc' \in [Sessions -> {"idle", "lock", "read", "rename", "unlock", "look"}]
        /\ request' \in [Sessions -> AllRequests \cup {NoRequest}]
        /\ draft' \in [Sessions -> Seq(Entries)]
        /\ applied' \in [Sessions -> BOOLEAN]
        /\ result' \in [Sessions -> {"none", "ok", "failed"}]
    BY <1>1, <2>2 DEF Return, TypeOK
  <2>4. failed' \in [Sessions -> BOOLEAN]
    BY <2>1 DEF TypeOK
  <2> QED BY <2>1, <2>3, <2>4 DEF TypeOK
<1>4. CASE Read(s)
  <2>1. request[s] \in AllRequests
    BY <1>4 DEF Read, Inv, InProgress, AtRest
  <2>2. Effect(request[s], file.entries) \in Seq(Entries)
    BY <2>1, EffectIs DEF TypeOK
  <2>3. draft' \in [Sessions -> Seq(Entries)]
    BY <1>4, <2>2 DEF Read, TypeOK
  <2>4. pc' \in [Sessions -> {"idle", "lock", "read", "rename", "unlock", "look"}]
    BY <1>4 DEF Read, TypeOK
  <2> QED BY <1>4, <2>3, <2>4 DEF Read, TypeOK
<1>5. CASE ReadFails(s)
  BY <1>5 DEF ReadFails, TypeOK
<1>6. CASE Rename(s)
  <2>1. file' \in [version : Nat, entries : Seq(Entries)]
    BY <1>6 DEF Rename, TypeOK
  <2>2. pc' \in [Sessions -> {"idle", "lock", "read", "rename", "unlock", "look"}]
        /\ applied' \in [Sessions -> BOOLEAN]
    BY <1>6 DEF Rename, TypeOK
  <2> QED BY <1>6, <2>1, <2>2 DEF Rename, TypeOK
<1>7. CASE WriteFails(s)
  BY <1>7 DEF WriteFails, TypeOK
<1> QED BY <1>2, <1>3, <1>4, <1>5, <1>6, <1>7

LEMMA EditTyped ==
    ASSUME TypeOK, NEW s \in Sessions, Edit(s) \/ Crash(s)
    PROVE  TypeOK'
<1>1. NoSnapshot \in Snapshots /\ <<>> \in Seq(Entries) /\ Blank \in Texts /\ Nobody \in Texts
  BY EmptySeq DEF NoSnapshot, Snapshots, Texts
<1>2. snapshot \in [Sessions -> Snapshots]
  BY DEF TypeOK, Snapshots
<1>3. snapshot' \in [Sessions -> Snapshots]
  <2>1. CASE BeginEdit(s) \/ TakeFails(s)
    BY <1>2, <2>1 DEF BeginEdit, TakeFails
  <2>2. CASE EndEdit(s) \/ Crash(s)
    <3>1. snapshot' = [snapshot EXCEPT ![s] = NoSnapshot]
      BY <2>2 DEF EndEdit, Crash
    <3> QED BY <1>1, <1>2, <3>1
  <2>3. CASE Look(s)
    <3> DEFINE taken == [loaded |-> FALSE, disabled |-> Disabled(s), limit |-> limit[s],
                         pending |-> IF Disabled(s) THEN Nobody ELSE pending[s],
                         version |-> file.version, entries |-> <<>>]
    <3>1. limit[s] \in Limits \cup {0} /\ pending[s] \in Texts /\ file.version \in Nat
      BY DEF TypeOK
    <3>2. Disabled(s) \in BOOLEAN
      BY DEF Disabled
    <3>3. taken \in Snapshots
      BY <1>1, <3>1, <3>2 DEF Snapshots
    <3>4. snapshot' = [snapshot EXCEPT ![s] = taken]
      BY <2>3 DEF Look
    <3> HIDE DEF taken
    <3> QED BY <1>2, <3>3, <3>4
  <2>4. CASE Take(s)
    <3> DEFINE seen == [snapshot[s] EXCEPT !.entries = View(s), !.loaded = TRUE]
    <3>1. View(s) \in Seq(Entries)
      <4>1. file.entries \in Seq(Entries) /\ limit[s] \in Nat
        BY LimitsAreNat DEF TypeOK
      <4> QED BY <1>1, <4>1, CollectedIs DEF View
    <3>2. snapshot[s] \in Snapshots
      BY <1>2
    <3>3. seen \in Snapshots
      BY <3>1, <3>2 DEF Snapshots
    <3>4. snapshot' = [snapshot EXCEPT ![s] = seen]
      BY <1>2, <2>4 DEF Take
    <3> HIDE DEF seen
    <3> QED BY <1>2, <3>3, <3>4
  <2> QED BY <2>1, <2>2, <2>3, <2>4 DEF Edit
<1>4. /\ file' = file /\ limit' = limit /\ calls' = calls
      /\ lock' \in {lock, Nobody}
      /\ request' \in {request, [request EXCEPT ![s] = NoRequest]}
      /\ draft' \in {draft, [draft EXCEPT ![s] = <<>>]}
      /\ applied' \in {applied, [applied EXCEPT ![s] = FALSE]}
      /\ result' \in {result, [result EXCEPT ![s] = "none"]}
      /\ failed' \in {failed, [failed EXCEPT ![s] = FALSE]}
  BY DEF Edit, BeginEdit, EndEdit, Look, Take, TakeFails, Crash
<1>5. /\ pc' \in {pc, [pc EXCEPT ![s] = "look"], [pc EXCEPT ![s] = "idle"]}
      /\ pending' \in {pending, [pending EXCEPT ![s] = Blank], [pending EXCEPT ![s] = Nobody]}
  BY DEF Edit, BeginEdit, EndEdit, Look, Take, TakeFails, Crash
<1>6. pc' \in [Sessions -> {"idle", "lock", "read", "rename", "unlock", "look"}]
      /\ pending' \in [Sessions -> Texts]
  <2>1. pc' \in [Sessions -> {"idle", "lock", "read", "rename", "unlock", "look"}]
    <3>1. pc' = pc \/ pc' = [pc EXCEPT ![s] = "look"] \/ pc' = [pc EXCEPT ![s] = "idle"]
      BY <1>5
    <3>2. pc \in [Sessions -> {"idle", "lock", "read", "rename", "unlock", "look"}]
      BY DEF TypeOK
    <3> QED BY <3>1, <3>2
  <2>2. pending' \in [Sessions -> Texts]
    <3>1. pending' = pending \/ \E text \in Texts : pending' = [pending EXCEPT ![s] = text]
      BY <1>1, <1>5
    <3>2. pending \in [Sessions -> Texts]
      BY DEF TypeOK
    <3> QED BY <3>1, <3>2
  <2> QED BY <2>1, <2>2
<1>7. /\ lock' \in Sessions \cup {Nobody}
      /\ request' \in [Sessions -> AllRequests \cup {NoRequest}]
      /\ draft' \in [Sessions -> Seq(Entries)]
  <2>1. request' \in [Sessions -> AllRequests \cup {NoRequest}]
    <3>1. request' = request \/ request' = [request EXCEPT ![s] = NoRequest]
      BY <1>4
    <3>2. request \in [Sessions -> AllRequests \cup {NoRequest}]
      BY DEF TypeOK
    <3> QED BY <3>1, <3>2
  <2>2. draft' \in [Sessions -> Seq(Entries)]
    <3>1. draft' = draft \/ draft' = [draft EXCEPT ![s] = <<>>]
      BY <1>4
    <3>2. draft \in [Sessions -> Seq(Entries)]
      BY DEF TypeOK
    <3> QED BY <1>1, <3>1, <3>2
  <2> QED BY <1>4, <2>1, <2>2 DEF TypeOK
<1>8. /\ applied' \in [Sessions -> BOOLEAN]
      /\ result' \in [Sessions -> {"none", "ok", "failed"}]
      /\ failed' \in [Sessions -> BOOLEAN]
  BY <1>4 DEF TypeOK
<1> QED BY <1>3, <1>4, <1>6, <1>7, <1>8 DEF TypeOK, Snapshots

LEMMA TypeNext == Inv /\ TypeOK /\ [Next]_vars => TypeOK'
<1> SUFFICES ASSUME Inv, TypeOK, [Next]_vars PROVE TypeOK'
  OBVIOUS
<1>1. CASE UNCHANGED vars
  BY <1>1 DEF TypeOK, vars, session
<1>2. CASE Next
  <2>1. PICK s \in Sessions :
           Call(s) \/ Acquire(s) \/ LockFails(s) \/ Holding(s) \/ Crash(s) \/ Edit(s)
    BY <1>2, Steps
  <2> QED BY <2>1, CallTyped, WriteTyped, EditTyped DEF Holding
<1> QED BY <1>1, <1>2

\* Whatever lists, limits and sessions: the file, the drafts and the snapshots hold lists of
\* commands with frequencies between 1 and the limit where they saturate (history.c).
THEOREM HistoryTyped == Spec => []TypeOK
<1>1. Init => Inv /\ TypeOK BY InvInit, TypeInit
<1>2. Inv /\ TypeOK /\ [Next]_vars => Inv' /\ TypeOK' BY InvNext, TypeNext
<1> QED BY <1>1, <1>2, PTL DEF Spec

(***************************************************************************)
(* Frequencies.                                                            *)
(***************************************************************************)

\* A session in the middle of a push works with its own settings.
Settings == \A s \in Sessions : request[s] # NoRequest =>
    request[s].limit = limit[s] /\ request[s].duplicates = Duplicates(s)

LEMMA SettingsNext == Inv /\ Settings /\ [Next]_vars => Settings'
<1> SUFFICES ASSUME Inv, Settings, [Next]_vars PROVE Settings'
  OBVIOUS
<1>1. CASE UNCHANGED vars
  BY <1>1 DEF Settings, vars, session, Duplicates
<1>2. ASSUME NEW s \in Sessions, Call(s) PROVE Settings'
  <2>1. pc[s] = "idle"
    BY <1>2, CallKinds
  <2>2. request[s] = NoRequest
    BY <2>1 DEF Inv, InProgress, AtRest
  <2>3. request' = request \/ \E called : request' = [request EXCEPT ![s] = called]
    BY <1>2 DEF Call, Push, Update, RemoveLast, Clear, Load, Begin
  <2>4. limit' = limit \/ \E new \in Limits : limit' = [limit EXCEPT ![s] = new]
    BY <1>2 DEF Call, Push, Update, RemoveLast, Clear, Load
  <2>5. request \in [Sessions -> AllRequests \cup {NoRequest}] /\ limit \in [Sessions -> Limits]
    BY DEF Inv, Fields
  <2>6. \A r \in Sessions \ {s} : request'[r] = request[r] /\ limit'[r] = limit[r]
    BY <2>3, <2>4, <2>5
  <2>7. request'[s] # NoRequest => request'[s].limit = limit'[s] /\ request'[s].duplicates = Duplicates(s)
    <3>1. \/ UNCHANGED request
          \/ \E called : /\ request' = [request EXCEPT ![s] = called] /\ called.duplicates = Duplicates(s)
                          /\ called.limit = limit'[s]
      <4>1. ASSUME NEW new \in Limits, Load(s, new), ~UNCHANGED request
            PROVE  \E called : /\ request' = [request EXCEPT ![s] = called]
                               /\ called.duplicates = Duplicates(s) /\ called.limit = limit'[s]
        <5> DEFINE called == [kind |-> "load", limit |-> new, duplicates |-> Duplicates(s)]
        <5>1. request' = [request EXCEPT ![s] = called] /\ limit'[s] = new
          BY <2>5, <4>1 DEF Load, Begin
        <5>2. called.duplicates = Duplicates(s) /\ called.limit = limit'[s]
          BY <5>1
        <5> HIDE DEF called
        <5> QED BY <5>1, <5>2
      <4>2. ASSUME NEW called,
                   called.duplicates = Duplicates(s), called.limit = limit[s], Begin(s, called), limit' = limit
            PROVE  \E other : /\ request' = [request EXCEPT ![s] = other]
                              /\ other.duplicates = Duplicates(s) /\ other.limit = limit'[s]
        BY <4>2 DEF Begin
      <4>3. ASSUME NEW c \in Commands, Push(s, c) \/ Update(s, c), ~UNCHANGED request
            PROVE  \E called : /\ called.duplicates = Duplicates(s) /\ called.limit = limit[s]
                               /\ Begin(s, called) /\ limit' = limit
        <5>1. ASSUME NEW kind
              PROVE  /\ [kind |-> kind, command |-> c, limit |-> limit[s],
                            duplicates |-> Duplicates(s)].duplicates = Duplicates(s)
                     /\ [kind |-> kind, command |-> c, limit |-> limit[s],
                            duplicates |-> Duplicates(s)].limit = limit[s]
          OBVIOUS
        <5> QED BY <4>3, <5>1 DEF Push, Update
      <4>4. ASSUME RemoveLast(s) \/ Clear(s), ~UNCHANGED request
            PROVE  \E called : /\ called.duplicates = Duplicates(s) /\ called.limit = limit[s]
                               /\ Begin(s, called) /\ limit' = limit
        BY <4>4 DEF RemoveLast, Clear
      <4> QED BY <1>2, <4>1, <4>2, <4>3, <4>4 DEF Call
    <3>2. CASE UNCHANGED request
      BY <2>2, <3>2
    <3>3. CASE ~UNCHANGED request
      BY <2>5, <3>1, <3>3
    <3> QED BY <3>2, <3>3
  <2> QED BY <2>6, <2>7 DEF Settings, Duplicates
<1>3. ASSUME NEW s \in Sessions, Acquire(s) \/ LockFails(s) \/ Holding(s) \/ Crash(s) \/ Edit(s) PROVE Settings'
  <2>1. limit' = limit /\ (request' = request \/ request' = [request EXCEPT ![s] = NoRequest])
    BY <1>3 DEF Acquire, LockFails, Holding, Read, ReadFails, Rename, WriteFails, Unlock, Return,
                Crash, Edit, BeginEdit, EndEdit, Look, Take, TakeFails
  <2>2. request \in [Sessions -> AllRequests \cup {NoRequest}]
    BY DEF Inv, Fields
  <2> QED BY <2>1, <2>2 DEF Settings, Duplicates
<1>4. CASE Next
  BY <1>2, <1>3, <1>4, Steps
<1> QED BY <1>1, <1>4

\* What a push that commits leaves.
LEMMA PushCounts ==
    ASSUME Inv, TypeOK, Settings, Next, NEW s \in Sessions,
           Commits(s), request[s].kind = "push", ~Duplicates(s),
           Has(Pruned(file.entries, limit[s]), request[s].command),
           Newest(Pruned(file.entries, limit[s]), request[s].command).frequency < FrequencyLimit
    PROVE  Last(file'.entries).frequency =
              Newest(Pruned(file.entries, limit[s]), request[s].command).frequency + 1
<1> DEFINE command == request[s].command
           kept == Pruned(file.entries, limit[s])
           read == Collected(file.entries, limit[s], FALSE)
<1>1. /\ request[s] \in AllRequests /\ request[s].limit = limit[s] /\ request[s].duplicates = FALSE
      /\ limit[s] \in Nat /\ file.entries \in Seq(Entries)
  <2>1. pc[s] = "rename"
    BY DEF Commits
  <2>2. request[s] \in AllRequests
    BY <2>1 DEF Inv, InProgress, AtRest
  <2>3. Duplicates(s) \in BOOLEAN
    BY DEF Duplicates
  <2> QED BY <2>2, <2>3, NoRequestIsNone, LimitsAreNat DEF Settings, TypeOK
<1>2. command \in Commands
  BY <1>1 DEF AllRequests, Requests
<1>3. file'.entries = Effect(request[s], file.entries)
  <2>1. PICK r \in Sessions :
           Call(r) \/ Acquire(r) \/ LockFails(r) \/ Holding(r) \/ Crash(r) \/ Edit(r)
    BY Steps
  <2>2. Rename(r)
    <3>1. UNCHANGED file \/ Rename(r)
      BY <2>1, CallKinds, EditKinds DEF Acquire, LockFails, Holding, Read, ReadFails, WriteFails, Unlock, Crash
    <3> QED BY <3>1 DEF Commits
  <2>3. pc \in [Sessions -> {"idle", "lock"} \cup InLock \cup {"look"}]
    BY DEF Inv, Fields
  <2>4. r = s
    BY <2>2, <2>3 DEF Rename, Commits
  <2> QED BY <2>2, <2>4 DEF Rename, Commits, Inv, DraftFresh
<1>4. file'.entries = Pushed(file.entries, command, limit[s], FALSE)
  BY <1>1, <1>3 DEF Effect
<1>5. kept \in Seq(Entries) /\ read = Distinct(kept)
  BY <1>1, PrunedIs DEF Collected
<1>6. Same(kept, command) # <<>>
  BY DEF Has
<1>7. limit[s] # 0
  <2>1. kept # <<>>
    BY <1>6, SameIs
  <2> QED BY <1>1, <2>1, PrunedIs
<1>8. Last(file'.entries).frequency = NextFrequency(read, command, FALSE)
  <2>1. Last(Pushed(file.entries, command, limit[s], FALSE)) =
            [command |-> command, frequency |-> NextFrequency(read, command, FALSE)]
    BY <1>1, <1>2, <1>7, PushedIs
  <2>2. \A n : [command |-> command, frequency |-> n].frequency = n
    OBVIOUS
  <2> HIDE DEF read, command
  <2> QED BY <1>4, <2>1, <2>2
<1>9. Same(read, command) # <<>> /\ Newest(read, command) = Newest(kept, command)
  <2> HIDE DEF kept, read, command
  <2> QED BY <1>5, <1>6, DistinctKeepsNewest
<1>10. Newest(kept, command).frequency \in 1 .. FrequencyLimit
  <2> HIDE DEF kept, command
  <2> QED BY <1>5, <1>6, NewestIs DEF Entries
<1>11. NextFrequency(read, command, FALSE) = Newest(kept, command).frequency + 1
  <2>1. Newest(kept, command).frequency < FrequencyLimit
    OBVIOUS
  <2> HIDE DEF kept, read, command
  <2> QED BY <1>9, <1>10, <2>1, FrequencyIsPositive DEF NextFrequency
<1> QED BY <1>8, <1>11

\* For lists of any length and any sessions: a push that commits raises by one what the newest
\* entry of its command has in the file it replaces, as far as a session may see it, wherever in
\* the list that is and whatever other sessions did since the push was called.
THEOREM PushesAreCounted == Spec => FrequencyCounts
<1> DEFINE Counts == \A s \in Sessions :
              LET c == request[s].command
                  kept == Pruned(file.entries, limit[s])
              IN  Commits(s) /\ request[s].kind = "push" /\ ~Duplicates(s) /\ Has(kept, c)
                  /\ Newest(kept, c).frequency < FrequencyLimit
                  => Last(file'.entries).frequency = Newest(kept, c).frequency + 1
<1>1. Init => Inv /\ TypeOK /\ Settings
  BY InvInit, TypeInit DEF Init, Settings
<1>2. Inv /\ TypeOK /\ Settings /\ [Next]_vars => Inv' /\ TypeOK' /\ Settings'
  BY InvNext, TypeNext, SettingsNext
<1>3. Inv /\ TypeOK /\ Settings /\ [Next]_vars => [Counts]_vars
  BY PushCounts
<1> QED BY <1>1, <1>2, <1>3, PTL DEF Spec, FrequencyCounts
=============================================================================
