-------------------------- MODULE RedirectionsProofs --------------------------
(***************************************************************************)
(* Redirected commands give back what they took, for any number of         *)
(* descriptors, any depth of nesting and any redirections within the       *)
(* assumption that commands which run other commands name single digits.   *)
(* Nothing leaks, each end of a pipe is held once and redirections mean    *)
(* what they say where the code makes that true: the last three theorems   *)
(* say what they leave out.                                                *)
(***************************************************************************)
EXTENDS Redirections, WellFoundedInduction, FiniteSetTheorems, SequenceTheorems, TLAPS

-----------------------------------------------------------------------------
(* Sets of descriptors *)

LEMMA HasLowest ==
    ASSUME NEW S \in SUBSET Nat, S # {}
    PROVE  /\ \E x \in S : \A y \in S : x <= y
           /\ Lowest(S) \in S
           /\ \A y \in S : Lowest(S) <= y
<1> DEFINE R == OpToRel(<, Nat)
<1>1. IsWellFoundedOn(R, Nat)
  BY NatLessThanWellFounded
<1>2. \A x, y \in Nat : x < y => <<x, y>> \in R
  BY DEF OpToRel
<1> HIDE DEF R
<1>3. PICK x \in S : \A y \in S : ~(<<y, x>> \in R)
  BY <1>1, WFMin, Zenon
<1>4. \A y \in S : ~(y < x)
  BY <1>2, <1>3, Zenon
<1>5. \A y \in S : x <= y
  BY <1>4
<1> QED BY <1>5 DEF Lowest

LEMMA HasHighest ==
    ASSUME NEW S \in SUBSET Nat, S # {}, NEW n \in Nat, \A x \in S : x <= n
    PROVE  Highest(S) \in S /\ \A y \in S : y <= Highest(S)
<1> DEFINE T == {n - x : x \in S}
<1>1. T # {}
  OBVIOUS
<1>2. \A x \in S : n - x \in Nat
  OBVIOUS
<1>3. T \in SUBSET Nat
  BY <1>2
<1>4. PICK t \in T : \A u \in T : t <= u
  BY <1>1, <1>3, HasLowest, Zenon
<1>5. PICK x \in S : t = n - x
  BY <1>4
<1>6. \A y \in S : n - x <= n - y
  BY <1>4, <1>5
<1>7. \A y \in S : y <= x
  BY <1>6
<1> QED BY <1>7 DEF Highest

LEMMA LowestFree ==
    ASSUME NEW t, NEW least, Free(t, least) # {}
    PROVE  Lowest(Free(t, least)) \in FD \ DOMAIN t /\ Lowest(Free(t, least)) >= least
<1>1. Free(t, least) \in SUBSET Nat
  BY LimitAssumption DEF Free, FD
<1>2. Lowest(Free(t, least)) \in Free(t, least)
  BY <1>1, HasLowest
<1> QED BY <1>2 DEF Free

-----------------------------------------------------------------------------
(* Tables *)

Tables == UNION {[S -> [file : Files, cloexec : BOOLEAN]] : S \in SUBSET FD}

SameAt(t, u, x) == (x \in DOMAIN t <=> x \in DOMAIN u) /\ (x \in DOMAIN t => t[x] = u[x])

LEMMA TablesAre ==
    ASSUME NEW t
    PROVE  t \in Tables <=> /\ DOMAIN t \subseteq FD
                            /\ t = [x \in DOMAIN t |-> t[x]]
                            /\ \A x \in DOMAIN t : t[x] \in [file : Files, cloexec : BOOLEAN]
BY DEF Tables

LEMMA SameEverywhere ==
    ASSUME NEW t \in Tables, NEW u \in Tables, \A x \in FD : SameAt(t, u, x)
    PROVE  t = u
<1>1. DOMAIN t = DOMAIN u
  BY TablesAre DEF SameAt
<1>2. \A x \in DOMAIN t : t[x] = u[x]
  BY TablesAre DEF SameAt
<1> QED BY <1>1, <1>2, TablesAre

LEMMA PutTable ==
    ASSUME NEW t \in Tables, NEW x \in FD, NEW file \in Files, NEW cloexec \in BOOLEAN
    PROVE  /\ Put(t, x, file, cloexec) \in Tables
           /\ DOMAIN Put(t, x, file, cloexec) = DOMAIN t \cup {x}
           /\ Put(t, x, file, cloexec)[x] = [file |-> file, cloexec |-> cloexec]
           /\ \A y : y # x => SameAt(Put(t, x, file, cloexec), t, y)
<1>1. DOMAIN t \subseteq FD /\ \A y \in DOMAIN t : t[y] \in [file : Files, cloexec : BOOLEAN]
  BY TablesAre
<1>2. Put(t, x, file, cloexec) \in [DOMAIN t \cup {x} -> [file : Files, cloexec : BOOLEAN]]
  BY <1>1 DEF Put
<1> QED BY <1>1, <1>2 DEF Put, Tables, SameAt

LEMMA DropTable ==
    ASSUME NEW t \in Tables, NEW S
    PROVE  /\ Drop(t, S) \in Tables
           /\ DOMAIN Drop(t, S) = DOMAIN t \ S
           /\ \A y : y \notin S => SameAt(Drop(t, S), t, y)
<1>1. DOMAIN t \subseteq FD /\ \A y \in DOMAIN t : t[y] \in [file : Files, cloexec : BOOLEAN]
  BY TablesAre
<1>2. Drop(t, S) \in [DOMAIN t \ S -> [file : Files, cloexec : BOOLEAN]]
  BY <1>1 DEF Drop
<1> QED BY <1>1, <1>2 DEF Drop, Tables, SameAt

LEMMA Dup2Table ==
    ASSUME NEW t \in Tables, NEW from \in DOMAIN t, NEW to \in FD
    PROVE  /\ Dup2(t, from, to) \in Tables
           /\ to \in DOMAIN Dup2(t, from, to)
           /\ \A y : y # to => SameAt(Dup2(t, from, to), t, y)
<1>1. from \in FD /\ t[from] \in [file : Files, cloexec : BOOLEAN]
  BY TablesAre
<1>2. t[from].file \in Files
  BY <1>1
<1>3. CASE from = to
  BY <1>3 DEF Dup2, SameAt
<1>4. CASE from # to
  <2>1. Dup2(t, from, to) = Put(t, to, t[from].file, FALSE)
    BY <1>4 DEF Dup2
  <2>2. /\ Put(t, to, t[from].file, FALSE) \in Tables
        /\ DOMAIN Put(t, to, t[from].file, FALSE) = DOMAIN t \cup {to}
        /\ \A y : y # to => SameAt(Put(t, to, t[from].file, FALSE), t, y)
    BY <1>2, PutTable
  <2> QED BY <2>1, <2>2
<1> QED BY <1>3, <1>4

LEMMA TransferTable ==
    ASSUME NEW t \in Tables, NEW opened \in FD \ DOMAIN t, NEW target \in FD,
           NEW file \in Files, NEW cloexec \in BOOLEAN
    PROVE  LET u == Transfer(Put(t, opened, file, cloexec), opened, target)
           IN  u \in Tables /\ \A y : y # target => SameAt(u, t, y)
<1> DEFINE p == Put(t, opened, file, cloexec)
           d == Dup2(p, opened, target)
<1>1. p \in Tables /\ DOMAIN p = DOMAIN t \cup {opened} /\ \A y : y # opened => SameAt(p, t, y)
  BY PutTable
<1>2. CASE opened = target
  BY <1>1, <1>2 DEF Transfer
<1>3. CASE opened # target
  <2> HIDE DEF p
  <2>1. d \in Tables /\ \A y : y # target => SameAt(d, p, y)
    BY <1>1, Dup2Table
  <2> HIDE DEF d
  <2>2. /\ Drop(d, {opened}) \in Tables
        /\ DOMAIN Drop(d, {opened}) = DOMAIN d \ {opened}
        /\ \A y : y # opened => SameAt(Drop(d, {opened}), d, y)
    BY <2>1, DropTable
  <2>3. ASSUME NEW y, y # target PROVE SameAt(Drop(d, {opened}), t, y)
    <3>1. CASE y = opened
      BY <2>2, <3>1 DEF SameAt
    <3>2. CASE y # opened
      BY <1>1, <2>1, <2>2, <2>3, <3>2 DEF SameAt
    <3> QED BY <3>1, <3>2
  <2> QED BY <1>3, <2>2, <2>3 DEF Transfer, d, p
<1> QED BY <1>2, <1>3

\* A redirection changes its targets and nothing else, whether it fails or not.
LEMMA ApplyTable ==
    ASSUME NEW t \in Tables, NEW op \in Redirection
    PROVE  /\ Apply(t, op).table \in Tables
           /\ \A y : y \notin Targets(op) => SameAt(Apply(t, op).table, t, y)
<1> DEFINE Fine(r, S) == r.table \in Tables /\ \A y : y \notin S => SameAt(r.table, t, y)
<1>0. /\ op.type \in {"file", "duplicate", "close", "both", "here"}
      /\ op.fd \in FD /\ op.from \in FD \cup {NoFd} /\ op.file \in Files
  BY DEF Redirection
<1>1. Stdin \in FD /\ Stdout \in FD /\ Stderr \in FD
  BY LimitAssumption DEF FD, Stdin, Stdout, Stderr
<1>2. \A u : SameAt(u, u, 0) /\ \A y : SameAt(u, u, y)
  BY DEF SameAt
<1>3. ASSUME NEW target \in FD, NEW file \in Files
      PROVE  Fine(RedirectFd(t, file, target), {target})
  <2>1. CASE file \in Unopenable \/ Free(t, 0) = {}
    BY <1>2, <2>1 DEF RedirectFd, Failed
  <2>2. CASE ~(file \in Unopenable \/ Free(t, 0) = {})
    <3>1. Lowest(Free(t, 0)) \in FD \ DOMAIN t
      BY <2>2, LowestFree
    <3> QED BY <2>2, <3>1, TransferTable DEF RedirectFd, Done
  <2> QED BY <2>1, <2>2
<1>4. ASSUME NEW u \in Tables, NEW from, NEW to \in FD
      PROVE  /\ SafeDup2(u, from, to).table \in Tables
             /\ \A y : y # to => SameAt(SafeDup2(u, from, to).table, u, y)
  BY <1>2, Dup2Table DEF SafeDup2, Done, Failed
<1>5. CASE op.type = "file"
  BY <1>0, <1>3, <1>5 DEF Apply, Targets
<1>6. CASE op.type = "duplicate"
  BY <1>0, <1>4, <1>6 DEF Apply, Targets
<1>7. CASE op.type = "close"
  BY <1>0, <1>7, DropTable DEF Apply, Targets, Done
<1>8. CASE op.type = "here"
  <2>1. CASE Cardinality(Free(t, 0)) < 2
    BY <1>2, <1>8, <2>1 DEF Apply, SetupHereDocument, Failed
  <2>2. CASE ~(Cardinality(Free(t, 0)) < 2)
    <3>1. Free(t, 0) # {}
      BY <2>2, FS_EmptySet
    <3>2. Lowest(Free(t, 0)) \in FD \ DOMAIN t
      BY <3>1, LowestFree
    <3>3. Here \in Files
      BY DEF Here, Files
    <3> QED BY <1>1, <1>8, <2>2, <3>2, <3>3, TransferTable DEF Apply, SetupHereDocument, Done, Targets
  <2> QED BY <2>1, <2>2
<1>9. CASE op.type = "both"
  <2> DEFINE out == RedirectFd(t, op.file, Stdout)
  <2>1. Fine(out, {Stdout})
    BY <1>0, <1>1, <1>3
  <2> QED BY <1>0, <1>1, <1>4, <1>9, <2>1 DEF Apply, Targets, SameAt
<1> QED BY <1>0, <1>5, <1>6, <1>7, <1>8, <1>9
-----------------------------------------------------------------------------
(* Commands *)

LEMMA OpListsAre ==
    ASSUME NEW S, NEW ops \in OpLists(S)
    PROVE  /\ ops \in Seq(S) /\ Len(ops) \in Nat /\ DOMAIN ops = 1 .. Len(ops)
           /\ \A i \in DOMAIN ops : ops[i] \in S
<1>1. PICK n \in 1 .. MaxOps : ops \in [1 .. n -> S]
  BY DEF OpLists
<1>2. n \in Nat
  BY <1>1, RedirectionsAssumption
<1> QED BY <1>1, <1>2

LEMMA NamedAre ==
    ASSUME NEW ops \in OpLists(Anywhere \cup Alone)
    PROVE  /\ Redirected(ops) \subseteq FD
           /\ Redirected(ops) \subseteq Named(ops)
           /\ Named(ops) \subseteq FD
           /\ ops \in OpLists(Anywhere) => Redirected(ops) \subseteq 0 .. LastDigit
<1>1. \A i \in DOMAIN ops : ops[i] \in Redirection
  BY OpListsAre, RedirectionsAssumption
<1>2. {Stdin, Stdout, Stderr} \subseteq FD
  BY LimitAssumption DEF FD, Stdin, Stdout, Stderr
<1>3. \A i \in DOMAIN ops : Targets(ops[i]) \subseteq FD
  BY <1>1, <1>2 DEF Targets, Redirection
<1>4. \A i \in DOMAIN ops : ops[i].from \in FD \cup {NoFd}
  BY <1>1 DEF Redirection
<1>5. ASSUME ops \in OpLists(Anywhere)
      PROVE  \A i \in DOMAIN ops : Targets(ops[i]) \subseteq 0 .. LastDigit
  BY <1>5, OpListsAre, OrdinaryAssumption
<1> QED BY <1>3, <1>4, <1>5 DEF Redirected, Named

LEMMA CommandFds ==
    ASSUME NEW command, command.ops \in OpLists(Anywhere \cup Alone)
    PROVE  /\ Preserved(command) \subseteq FD
           /\ LeastBackup(command.ops) \in Nat
           /\ LeastBackup(command.ops) > LastDigit
           /\ \A x \in Preserved(command) \cup Named(command.ops) : x < LeastBackup(command.ops)
           /\ command.ops \in OpLists(Anywhere) => Preserved(command) \subseteq 0 .. LastDigit
<1> DEFINE named == {LastDigit} \cup Named(command.ops)
<1>1. /\ Redirected(command.ops) \subseteq Named(command.ops)
      /\ Named(command.ops) \subseteq FD
      /\ command.ops \in OpLists(Anywhere) => Redirected(command.ops) \subseteq 0 .. LastDigit
  BY NamedAre
<1>2. named \in SUBSET Nat /\ named # {} /\ \A x \in named : x <= Limit
  BY <1>1, LimitAssumption DEF FD, LastDigit
<1>3. Highest(named) \in named /\ \A y \in named : y <= Highest(named)
  BY <1>2, HasHighest, LimitAssumption
<1>4. LeastBackup(command.ops) = 1 + Highest(named)
  BY DEF LeastBackup
<1>5. {Stdin, Stdout, Stderr} \subseteq 0 .. LastDigit /\ {Stdin, Stdout, Stderr} \subseteq FD
  BY LimitAssumption DEF FD, Stdin, Stdout, Stderr, LastDigit
<1>6. Preserved(command) \subseteq Redirected(command.ops) \cup {Stdin, Stdout, Stderr}
  BY DEF Preserved
<1>7. LastDigit \in named /\ Named(command.ops) \subseteq named
  BY <1>1
<1>8. \A x \in {Stdin, Stdout, Stderr} : x \in Nat /\ x <= LastDigit
  BY DEF Stdin, Stdout, Stderr, LastDigit
<1> HIDE DEF named
<1>9. Highest(named) \in Nat /\ LastDigit \in Nat /\ LastDigit <= Highest(named)
  BY <1>2, <1>3, <1>7
<1>10. ASSUME NEW x \in Preserved(command) \cup Named(command.ops) PROVE x < LeastBackup(command.ops)
  <2>1. CASE x \in Named(command.ops)
    <3>1. x \in named
      BY <1>7, <2>1
    <3>2. x \in Nat /\ x <= Highest(named)
      BY <1>2, <1>3, <3>1
    <3> QED BY <1>4, <1>9, <3>2
  <2>2. CASE x \in {Stdin, Stdout, Stderr}
    BY <1>4, <1>8, <1>9, <2>2
  <2>3. x \in Named(command.ops) \/ x \in {Stdin, Stdout, Stderr}
    BY <1>1, <1>6, <1>10
  <2> QED BY <2>1, <2>2, <2>3
<1> QED BY <1>1, <1>4, <1>5, <1>6, <1>9, <1>10

-----------------------------------------------------------------------------
(* The inductive invariant *)

Saved == UNION {[S -> [backup : FD \cup {NoFd}, cloexec : BOOLEAN]] : S \in SUBSET FD}

FrameType == [kind : Kinds, ops : OpLists(Anywhere \cup Alone), applied : Nat,
              toSave : SUBSET FD, saved : Saved, entry : Tables, running : BOOLEAN]

PipeType == [read : FD, write : FD]

Typed ==
    /\ table \in Tables
    /\ frames \in Seq(FrameType)
    /\ DOMAIN pipeline = {"stages", "pipes", "members", "launched"}
    /\ pipeline = [x \in DOMAIN pipeline |-> pipeline[x]]
    /\ pipeline.pipes \in Seq(PipeType)

Resting(frame) == frame.kind = "nesting" /\ frame.running

Last(fs) == fs[Len(fs)]

\* Which frames may lie where, and how far each of them has come.
Stacked(fs) ==
    \A i \in 1 .. Len(fs) :
        /\ i < Len(fs) => Resting(fs[i])
        /\ Len(fs) > 1 \/ fs[i].kind = "nesting" => fs[i].ops \in OpLists(Anywhere)
        /\ fs[i].toSave \subseteq Preserved(fs[i])
        /\ DOMAIN fs[i].saved = Preserved(fs[i]) \ fs[i].toSave
        /\ fs[i].running \/ fs[i].applied > 0 => fs[i].toSave = {}

\* What the shell keeps for itself, the backups of its frames and the handle m
\* on the terminal, is out of everybody's way.
Kept(t, fs, m) ==
    /\ \A i \in 1 .. Len(fs) : \A b \in Backups(fs[i]) :
        /\ b \in DOMAIN t
        /\ b >= LeastBackup(fs[i].ops)
        /\ t[b].cloexec
        /\ b # m
        /\ b \notin DOMAIN fs[i].entry
    /\ \A i, j \in 1 .. Len(fs) : i # j => Backups(fs[i]) \cap Backups(fs[j]) = {}
    /\ \A i \in 1 .. Len(fs) : m \notin Preserved(fs[i])
    /\ m \in DOMAIN t
    /\ t[m] = [file |-> <<"terminal", 3>>, cloexec |-> TRUE]

\* The backups still hold what they were made of.
Held(t, fs) ==
    \A i \in 1 .. Len(fs) : \A x \in DOMAIN fs[i].saved :
        /\ fs[i].saved[x].backup = NoFd <=> x \notin DOMAIN fs[i].entry
        /\ fs[i].saved[x].backup # NoFd =>
                fs[i].entry[x] = [file |-> t[fs[i].saved[x].backup].file,
                                  cloexec |-> fs[i].saved[x].cloexec]

\* Until its action runs others, a command has changed nothing but what it
\* preserves, and nothing at all before everything is saved.
Untouched(t, fs) ==
    fs # <<>> /\ ~Resting(Last(fs)) =>
        \A x \in FD \ Backups(Last(fs)) :
            Last(fs).toSave # {} \/ x \notin Preserved(Last(fs)) => SameAt(t, Last(fs).entry, x)

\* A pipeline runs where a command may, and the pipes being wired are nobody's
\* backup.
Piped ==
    /\ pipeline # NoPipeline /\ frames # <<>> => Resting(Top)
    /\ ~pipeline.launched => Ends(pipeline.pipes) \cap (AllBackups \cup {terminal}) = {}

Inv ==
    /\ Typed
    /\ Stacked(frames)
    /\ Kept(table, frames, terminal)
    /\ Held(table, frames)
    /\ Untouched(table, frames)
    /\ Piped

-----------------------------------------------------------------------------
(* Steps on the stack *)

LEMMA BackupsAre ==
    ASSUME NEW f \in FrameType
    PROVE  /\ Backups(f) \subseteq FD
           /\ \A x \in DOMAIN f.saved :
                /\ f.saved[x] \in [backup : FD \cup {NoFd}, cloexec : BOOLEAN]
                /\ f.saved[x].backup # NoFd => f.saved[x].backup \in Backups(f)
           /\ f.saved = [x \in DOMAIN f.saved |-> f.saved[x]]
<1>1. f.saved \in Saved
  BY DEF FrameType
<1>2. \A x \in DOMAIN f.saved : f.saved[x] \in [backup : FD \cup {NoFd}, cloexec : BOOLEAN]
  BY <1>1 DEF Saved
<1>3. f.saved = [x \in DOMAIN f.saved |-> f.saved[x]]
  BY <1>1 DEF Saved
<1> QED BY <1>2, <1>3 DEF Backups

\* Frames that differ only in how far they have come, over a table that has
\* the private descriptors as they were.
Alike(f, g) ==
    /\ f.kind = g.kind /\ f.ops = g.ops
    /\ f.saved = g.saved /\ f.entry = g.entry

LEMMA Carry ==
    ASSUME NEW t, NEW u, NEW m, NEW fs \in Seq(FrameType), NEW gs \in Seq(FrameType),
           Len(gs) <= Len(fs), \A i \in 1 .. Len(gs) : Alike(fs[i], gs[i]),
           Kept(t, fs, m), Held(t, fs),
           SameAt(u, t, m),
           \A i \in 1 .. Len(gs) : \A b \in Backups(fs[i]) : SameAt(u, t, b)
    PROVE  Kept(u, gs, m) /\ Held(u, gs)
<1>1. \A i \in 1 .. Len(gs) : /\ i \in 1 .. Len(fs)
                               /\ Backups(gs[i]) = Backups(fs[i])
                               /\ Preserved(gs[i]) = Preserved(fs[i])
                               /\ gs[i].ops = fs[i].ops /\ gs[i].entry = fs[i].entry
                               /\ gs[i].saved = fs[i].saved
                               /\ gs[i] \in FrameType
  BY DEF Alike, Backups, Preserved
<1>2. \A i \in 1 .. Len(gs) : \A b \in Backups(gs[i]) :
        /\ b \in DOMAIN u
        /\ u[b] = t[b]
        /\ b >= LeastBackup(gs[i].ops)
        /\ t[b].cloexec
        /\ b # m
        /\ b \notin DOMAIN gs[i].entry
  BY <1>1 DEF Kept, SameAt
<1>3. Kept(u, gs, m)
  BY <1>1, <1>2 DEF Kept, SameAt
<1>4. Held(u, gs)
  <2> SUFFICES ASSUME NEW i \in 1 .. Len(gs), NEW x \in DOMAIN gs[i].saved
               PROVE  /\ gs[i].saved[x].backup = NoFd <=> x \notin DOMAIN gs[i].entry
                      /\ gs[i].saved[x].backup # NoFd =>
                            gs[i].entry[x] = [file |-> u[gs[i].saved[x].backup].file,
                                              cloexec |-> gs[i].saved[x].cloexec]
    BY DEF Held
  <2>1. /\ gs[i].saved[x].backup = NoFd <=> x \notin DOMAIN gs[i].entry
        /\ gs[i].saved[x].backup # NoFd =>
              gs[i].entry[x] = [file |-> t[gs[i].saved[x].backup].file,
                                cloexec |-> gs[i].saved[x].cloexec]
    BY <1>1 DEF Held
  <2>2. gs[i].saved[x].backup # NoFd => gs[i].saved[x].backup \in Backups(gs[i])
    BY <1>1, BackupsAre
  <2> QED BY <1>2, <2>1, <2>2
<1> QED BY <1>3, <1>4

LEMMA Unstack ==
    ASSUME NEW fs \in Seq(FrameType), fs # <<>>
    PROVE  /\ Len(fs) \in Nat \ {0} /\ Last(fs) \in FrameType
           /\ SubSeq(fs, 1, Len(fs) - 1) \in Seq(FrameType)
           /\ Len(SubSeq(fs, 1, Len(fs) - 1)) = Len(fs) - 1
           /\ \A i \in 1 .. Len(fs) - 1 : SubSeq(fs, 1, Len(fs) - 1)[i] = fs[i]
<1>1. Len(fs) \in Nat \ {0} /\ \A i \in 1 .. Len(fs) : fs[i] \in FrameType
  OBVIOUS
<1> DEFINE n == Len(fs) - 1
<1>2. n \in Nat /\ n \in Int /\ 1 \in Int /\ \A i \in 1 .. n : fs[i] \in FrameType
  BY <1>1
<1> HIDE DEF n
<1>3. /\ SubSeq(fs, 1, n) \in Seq(FrameType)
      /\ Len(SubSeq(fs, 1, n)) = IF 1 <= n THEN n - 1 + 1 ELSE 0
      /\ \A i \in 1 .. n - 1 + 1 : SubSeq(fs, 1, n)[i] = fs[1 + i - 1]
  BY <1>2, SubSeqProperties
<1>4. Len(SubSeq(fs, 1, n)) = n
  BY <1>2, <1>3
<1>5. \A i \in 1 .. n : SubSeq(fs, 1, n)[i] = fs[i]
  BY <1>2, <1>3
<1> QED BY <1>1, <1>3, <1>4, <1>5 DEF Last, n

\* Whoever leaves the top of the stack may have changed what it preserves and
\* its backups, nothing else; the frames below rest as they did.
LEMMA Pop ==
    ASSUME NEW t, NEW u, NEW m, NEW fs \in Seq(FrameType), fs # <<>>,
           Stacked(fs), Kept(t, fs, m), Held(t, fs),
           \A x : x \notin Preserved(Last(fs)) \cup Backups(Last(fs)) => SameAt(u, t, x)
    PROVE  LET gs == SubSeq(fs, 1, Len(fs) - 1)
           IN  Stacked(gs) /\ Kept(u, gs, m) /\ Held(u, gs) /\ Untouched(u, gs)
                /\ (gs # <<>> => Resting(Last(gs)))
<1> DEFINE gs == SubSeq(fs, 1, Len(fs) - 1)
           n == Len(fs)
<1>1. /\ n \in Nat \ {0} /\ fs[n] \in FrameType /\ Last(fs) = fs[n]
      /\ gs \in Seq(FrameType) /\ Len(gs) = n - 1
      /\ \A i \in 1 .. n - 1 : gs[i] = fs[i] /\ i \in 1 .. n /\ i < n /\ i # n
      /\ n \in 1 .. n
  BY Unstack DEF Last
<1> HIDE DEF gs
<1>2. \A i \in 1 .. Len(gs) : Alike(fs[i], gs[i])
  BY <1>1 DEF Alike
<1>3. SameAt(u, t, m)
  <2>1. m \notin Preserved(fs[n]) /\ m \notin Backups(fs[n])
    BY <1>1 DEF Kept
  <2> QED BY <1>1, <2>1
<1>4. ASSUME NEW i \in 1 .. Len(gs), NEW b \in Backups(fs[i])
      PROVE  SameAt(u, t, b)
  <2>1. i \in 1 .. n /\ n > 1 /\ i # n
    BY <1>1
  <2>2. b >= LeastBackup(fs[i].ops) /\ b \notin Backups(fs[n])
    BY <1>1, <2>1 DEF Kept
  <2>3. fs[i] \in FrameType
    BY <2>1
  <2>4. LeastBackup(fs[i].ops) > LastDigit /\ LeastBackup(fs[i].ops) \in Nat /\ b \in FD
    BY <2>3, CommandFds, BackupsAre DEF FrameType
  <2>5. fs[n].ops \in OpLists(Anywhere) /\ fs[n].ops \in OpLists(Anywhere \cup Alone)
    BY <1>1, <2>1 DEF Stacked, FrameType
  <2>6. Preserved(fs[n]) \subseteq 0 .. LastDigit
    BY <2>5, CommandFds
  <2>7. b \notin Preserved(fs[n])
    BY <2>2, <2>4, <2>6, LimitAssumption DEF LastDigit, FD
  <2> QED BY <1>1, <2>2, <2>7
<1>5. Kept(u, gs, m) /\ Held(u, gs)
  <2>1. Len(gs) <= Len(fs)
    BY <1>1
  <2> QED BY <1>1, <1>2, <1>3, <1>4, <2>1, Carry
<1>6. Stacked(gs)
  BY <1>1 DEF Stacked
<1>7. gs # <<>> => Resting(Last(gs))
  BY <1>1 DEF Stacked, Last
<1> QED BY <1>5, <1>6, <1>7 DEF Untouched, gs

-----------------------------------------------------------------------------
(* Restoring *)

LEMMA RestoredTable ==
    ASSUME NEW t \in Tables, NEW f \in FrameType, DOMAIN f.saved \subseteq FD
    PROVE  /\ Restored(t, f) \in Tables
           /\ \A x : x \notin DOMAIN f.saved \cup Backups(f) => SameAt(Restored(t, f), t, x)
           /\ \A x \in Backups(f) : x \notin DOMAIN Restored(t, f)
<1> DEFINE back == PutBack(t, f.saved)
           kept == IF f.kind = "exec" THEN t ELSE back
<1>1. /\ DOMAIN t \subseteq FD
      /\ \A x \in DOMAIN t : t[x] \in [file : Files, cloexec : BOOLEAN]
      /\ \A x \in DOMAIN f.saved : f.saved[x] \in [backup : FD \cup {NoFd}, cloexec : BOOLEAN]
  BY TablesAre, BackupsAre
<1>2. DOMAIN back \subseteq FD
  BY <1>1 DEF PutBack
<1>3. back = [x \in DOMAIN back |-> back[x]]
  BY DEF PutBack
<1>4. \A x \in DOMAIN back : back[x] \in [file : Files, cloexec : BOOLEAN]
  BY <1>1 DEF PutBack
<1>5. \A x : x \notin DOMAIN f.saved => SameAt(back, t, x)
  BY DEF PutBack, SameAt
<1>6. back \in Tables
  BY <1>2, <1>3, <1>4, TablesAre
<1> HIDE DEF back
<1>7. kept \in Tables /\ \A x : x \notin DOMAIN f.saved => SameAt(kept, t, x)
  BY <1>5, <1>6 DEF SameAt
<1>8. Restored(t, f) = Drop(kept, Backups(f))
  BY DEF Restored, back
<1> HIDE DEF kept
<1>9. /\ Drop(kept, Backups(f)) \in Tables
      /\ DOMAIN Drop(kept, Backups(f)) = DOMAIN kept \ Backups(f)
      /\ \A y : y \notin Backups(f) => SameAt(Drop(kept, Backups(f)), kept, y)
  BY <1>7, DropTable
<1> QED BY <1>7, <1>8, <1>9 DEF SameAt

LEMMA RestoredThere ==
    ASSUME NEW t \in Tables, NEW f \in FrameType, f.kind # "exec",
           NEW x \in DOMAIN f.saved, x \notin Backups(f),
           f.saved[x].backup = NoFd <=> x \notin DOMAIN f.entry,
           f.saved[x].backup # NoFd =>
                /\ f.saved[x].backup \in DOMAIN t
                /\ f.entry[x] = [file |-> t[f.saved[x].backup].file,
                                 cloexec |-> f.saved[x].cloexec]
    PROVE  SameAt(Restored(t, f), f.entry, x)
<1> DEFINE back == PutBack(t, f.saved)
<1>1. SameAt(Restored(t, f), back, x)
  BY DEF Restored, Drop, SameAt
<1>2. NoFd \notin DOMAIN t
  BY TablesAre, LimitAssumption DEF FD, NoFd
<1>3. CASE f.saved[x].backup = NoFd
  <2>1. x \notin DOMAIN back
    BY <1>2, <1>3 DEF PutBack
  <2> QED BY <1>1, <1>3, <2>1 DEF SameAt
<1>4. CASE f.saved[x].backup # NoFd
  <2>1. x \in DOMAIN back
    BY <1>4 DEF PutBack
  <2>2. back[x] = [file |-> t[f.saved[x].backup].file, cloexec |-> f.saved[x].cloexec]
    BY <1>4 DEF PutBack
  <2> QED BY <1>1, <1>4, <2>1, <2>2 DEF SameAt
<1> QED BY <1>3, <1>4

-----------------------------------------------------------------------------
(* Leaving a command *)

\* The action of DescriptorsComeBack.
ComesBack ==
    Len(frames') < Len(frames) /\ Top.kind # "exec" =>
        IF Resting(Top)
        THEN LET back == Preserved(Top)
             IN  Drop(table', FD \ back) = Drop(Top.entry, FD \ back)
        ELSE table' = Top.entry

LEMMA TopIs ==
    ASSUME Inv, frames # <<>>
    PROVE  /\ Len(frames) \in Nat \ {0} /\ Len(frames) \in 1 .. Len(frames)
           /\ Top = frames[Len(frames)] /\ Top = Last(frames) /\ Top \in FrameType
           /\ Top.entry \in Tables
           /\ Preserved(Top) \subseteq FD /\ DOMAIN Top.saved \subseteq FD
           /\ Preserved(Top) \cap Backups(Top) = {}
<1>1. /\ Len(frames) \in Nat \ {0} /\ Len(frames) \in 1 .. Len(frames)
      /\ Top = frames[Len(frames)] /\ Top = Last(frames) /\ Top \in FrameType
  BY DEF Inv, Typed, Top, Last
<1>2. /\ Preserved(Top) \subseteq FD
      /\ LeastBackup(Top.ops) \in Nat
      /\ \A x \in Preserved(Top) : x < LeastBackup(Top.ops)
  BY <1>1, CommandFds DEF FrameType
<1>3. \A b \in Backups(Top) : b >= LeastBackup(Top.ops) /\ b \in FD
  BY <1>1, BackupsAre DEF Inv, Kept
<1>4. Preserved(Top) \cap Backups(Top) = {}
  BY <1>2, <1>3, LimitAssumption DEF FD
<1>5. DOMAIN Top.saved \subseteq FD
  BY <1>1, <1>2 DEF Inv, Stacked
<1> QED BY <1>1, <1>2, <1>4, <1>5 DEF FrameType

LEMMA Leaving ==
    ASSUME Inv, frames # <<>>, Top.toSave = {}, NEW t \in Tables,
           \A x : x \notin Preserved(Top) => SameAt(t, table, x),
           Leave(t), UNCHANGED <<terminal, pipeline>>
    PROVE  Inv' /\ ComesBack
<1> DEFINE n == Len(frames)
           gs == SubSeq(frames, 1, Len(frames) - 1)
           u == Restored(t, Top)
<1>1. /\ n \in Nat \ {0} /\ n \in 1 .. n
      /\ Top = frames[n] /\ Top = Last(frames) /\ Top \in FrameType
      /\ Top.entry \in Tables
      /\ Preserved(Top) \subseteq FD /\ DOMAIN Top.saved \subseteq FD
      /\ Preserved(Top) \cap Backups(Top) = {}
  BY TopIs
<1>2. /\ u \in Tables
      /\ \A x : x \notin DOMAIN Top.saved \cup Backups(Top) => SameAt(u, t, x)
      /\ \A x \in Backups(Top) : x \notin DOMAIN u
  BY <1>1, RestoredTable
<1>3. DOMAIN Top.saved = Preserved(Top)
  BY <1>1 DEF Inv, Stacked
<1>4. \A x : x \notin Preserved(Top) \cup Backups(Top) => SameAt(u, table, x)
  BY <1>2, <1>3 DEF SameAt
<1>5. table' = u /\ frames' = gs
  BY DEF Leave, Below
<1> HIDE DEF u
<1>6. /\ Stacked(gs) /\ Kept(u, gs, terminal) /\ Held(u, gs) /\ Untouched(u, gs)
      /\ (gs # <<>> => Resting(Last(gs)))
  BY <1>1, <1>4, Pop DEF Inv, Typed
<1>7. /\ gs \in Seq(FrameType) /\ Len(gs) = n - 1
      /\ \A i \in 1 .. n - 1 : gs[i] = frames[i] /\ i \in 1 .. n
  BY Unstack DEF Inv, Typed
<1> HIDE DEF gs
<1>8. AllBackups' \subseteq AllBackups
  BY <1>1, <1>5, <1>7 DEF AllBackups, Inv, Typed
<1>9. Piped'
  BY <1>5, <1>6, <1>8 DEF Inv, Piped, Last, Top
<1>10. Inv'
  BY <1>2, <1>5, <1>6, <1>7, <1>9 DEF Inv, Typed
<1>11. ASSUME Top.kind # "exec", NEW x \in Preserved(Top)
       PROVE  SameAt(u, Top.entry, x)
  <2>1. x \in DOMAIN Top.saved /\ x \notin Backups(Top)
    BY <1>1, <1>3, <1>11
  <2>2. /\ Top.saved[x].backup = NoFd <=> x \notin DOMAIN Top.entry
        /\ Top.saved[x].backup # NoFd =>
              Top.entry[x] = [file |-> table[Top.saved[x].backup].file,
                              cloexec |-> Top.saved[x].cloexec]
    <3>1. Held(table, frames)
      BY DEF Inv
    <3>2. /\ frames[n].saved[x].backup = NoFd <=> x \notin DOMAIN frames[n].entry
          /\ frames[n].saved[x].backup # NoFd =>
                frames[n].entry[x] = [file |-> table[frames[n].saved[x].backup].file,
                                      cloexec |-> frames[n].saved[x].cloexec]
      BY <1>1, <2>1, <3>1 DEF Held
    <3> QED BY <1>1, <3>2
  <2>3. ASSUME Top.saved[x].backup # NoFd
        PROVE  /\ Top.saved[x].backup \in DOMAIN t
               /\ t[Top.saved[x].backup] = table[Top.saved[x].backup]
    <3>1. Top.saved[x].backup \in Backups(Top)
      BY <1>1, <2>1, <2>3, BackupsAre
    <3>2. Top.saved[x].backup \in DOMAIN table /\ Top.saved[x].backup \notin Preserved(Top)
      BY <1>1, <3>1 DEF Inv, Kept
    <3> QED BY <3>2 DEF SameAt
  <2>4. SameAt(Restored(t, Top), Top.entry, x)
    BY <1>1, <1>11, <2>1, <2>2, <2>3, RestoredThere
  <2> QED BY <2>4 DEF u
<1>12. ASSUME Top.kind # "exec", Resting(Top)
       PROVE  Drop(u, FD \ Preserved(Top)) = Drop(Top.entry, FD \ Preserved(Top))
  <2>1. DOMAIN u \subseteq FD /\ DOMAIN Top.entry \subseteq FD
    BY <1>1, <1>2, TablesAre
  <2>2. DOMAIN u \ (FD \ Preserved(Top)) = DOMAIN Top.entry \ (FD \ Preserved(Top))
    BY <1>11, <1>12, <2>1 DEF SameAt
  <2>3. \A x \in DOMAIN u \ (FD \ Preserved(Top)) : u[x] = Top.entry[x]
    BY <1>11, <1>12, <2>1 DEF SameAt
  <2> QED BY <2>2, <2>3 DEF Drop
<1>13. ASSUME Top.kind # "exec", ~Resting(Top)
       PROVE  u = Top.entry
  <2>1. ASSUME NEW x \in FD PROVE SameAt(u, Top.entry, x)
    <3>1. CASE x \in Preserved(Top)
      BY <1>11, <1>13, <3>1
    <3>2. CASE x \in Backups(Top)
      <4>1. x \notin DOMAIN Top.entry /\ x \notin DOMAIN u
        BY <1>1, <1>2, <3>2 DEF Inv, Kept
      <4> QED BY <4>1 DEF SameAt
    <3>3. CASE x \notin Preserved(Top) /\ x \notin Backups(Top)
      <4>1. SameAt(table, Top.entry, x)
        BY <1>1, <1>13, <2>1, <3>3 DEF Inv, Untouched
      <4>2. SameAt(u, table, x)
        BY <1>4, <3>3
      <4> QED BY <4>1, <4>2 DEF SameAt
    <3> QED BY <3>1, <3>2, <3>3
  <2> QED BY <1>1, <1>2, <2>1, SameEverywhere
<1>14. ComesBack
  BY <1>5, <1>12, <1>13 DEF ComesBack
<1> QED BY <1>10, <1>14

LEMMA GivingUp ==
    ASSUME Inv, frames # <<>>, Top.toSave # {}, GiveUp, UNCHANGED <<terminal, pipeline>>
    PROVE  Inv' /\ ComesBack
<1> DEFINE n == Len(frames)
           gs == SubSeq(frames, 1, Len(frames) - 1)
           u == Drop(table, Backups(Top))
<1>1. /\ n \in Nat \ {0} /\ n \in 1 .. n
      /\ Top = frames[n] /\ Top = Last(frames) /\ Top \in FrameType
      /\ Top.entry \in Tables
  BY TopIs
<1>2. /\ u \in Tables
      /\ DOMAIN u = DOMAIN table \ Backups(Top)
      /\ \A x : x \notin Backups(Top) => SameAt(u, table, x)
  BY DropTable DEF Inv, Typed
<1>3. table' = u /\ frames' = gs
  BY DEF GiveUp, Below
<1> HIDE DEF u
<1>4. /\ Stacked(gs) /\ Kept(u, gs, terminal) /\ Held(u, gs) /\ Untouched(u, gs)
      /\ (gs # <<>> => Resting(Last(gs)))
  BY <1>1, <1>2, Pop DEF Inv, Typed
<1>5. /\ gs \in Seq(FrameType) /\ Len(gs) = n - 1
      /\ \A i \in 1 .. n - 1 : gs[i] = frames[i] /\ i \in 1 .. n
  BY Unstack DEF Inv, Typed
<1> HIDE DEF gs
<1>6. AllBackups' \subseteq AllBackups
  BY <1>1, <1>3, <1>5 DEF AllBackups, Inv, Typed
<1>7. Piped'
  BY <1>3, <1>4, <1>6 DEF Inv, Piped, Last, Top
<1>8. Inv'
  BY <1>2, <1>3, <1>4, <1>5, <1>7 DEF Inv, Typed
<1>9. ~Resting(Top)
  BY <1>1 DEF Inv, Stacked, Resting
<1>10. ASSUME NEW x \in FD PROVE SameAt(u, Top.entry, x)
  <2>1. CASE x \in Backups(Top)
    <3>1. x \notin DOMAIN Top.entry
      BY <1>1, <2>1 DEF Inv, Kept
    <3> QED BY <1>2, <2>1, <3>1 DEF SameAt
  <2>2. CASE x \notin Backups(Top)
    <3>1. SameAt(table, Top.entry, x)
      BY <1>1, <1>9, <1>10, <2>2 DEF Inv, Untouched
    <3> QED BY <1>2, <2>2, <3>1 DEF SameAt
  <2> QED BY <2>1, <2>2
<1>11. u = Top.entry
  BY <1>1, <1>2, <1>10, SameEverywhere
<1>12. ComesBack
  BY <1>3, <1>9, <1>11 DEF ComesBack
<1> QED BY <1>8, <1>12

-----------------------------------------------------------------------------
(* Entering a command *)

LEMMA Entering ==
    ASSUME Inv, Ready, NEW command, NEW t \in Tables,
           command.kind \in Kinds,
           command.ops \in OpLists(Anywhere \cup Alone),
           command.kind = "nesting" \/ frames # <<>> => command.ops \in OpLists(Anywhere),
           Enter(command, t), UNCHANGED pipeline,
           terminal' \notin Preserved(command),
           terminal' \in DOMAIN t,
           t[terminal'] = [file |-> <<"terminal", 3>>, cloexec |-> TRUE],
           \A i \in 1 .. Len(frames) : terminal' \notin Preserved(frames[i]),
           \A i \in 1 .. Len(frames) : \A b \in Backups(frames[i]) :
                b # terminal' /\ SameAt(t, table, b)
    PROVE  Inv'
<1> DEFINE f == [kind |-> command.kind, ops |-> command.ops, applied |-> 0,
                 toSave |-> Preserved(command), saved |-> [x \in {} |-> NoFd],
                 entry |-> t, running |-> FALSE]
           n == Len(frames)
           gs == Append(frames, f)
<1>1. Preserved(command) \subseteq FD
  BY CommandFds
<1>2. [x \in {} |-> NoFd] \in Saved
  <2>1. [x \in {} |-> NoFd] \in [{} -> [backup : FD \cup {NoFd}, cloexec : BOOLEAN]]
    OBVIOUS
  <2>2. {} \in SUBSET FD
    OBVIOUS
  <2> QED BY <2>1, <2>2 DEF Saved
<1>3. f \in FrameType
  BY <1>1, <1>2 DEF FrameType
<1>4. /\ DOMAIN f.saved = {} /\ Backups(f) = {} /\ Preserved(f) = Preserved(command)
      /\ f.toSave = Preserved(f) /\ f.entry = t /\ ~f.running /\ f.applied = 0
      /\ f.ops = command.ops /\ f.kind = command.kind
  BY DEF Backups, Preserved
<1> HIDE DEF f
<1>5. /\ n \in Nat /\ frames \in Seq(FrameType)
      /\ gs \in Seq(FrameType) /\ Len(gs) = n + 1 /\ Last(gs) = f /\ gs # <<>>
      /\ gs[n + 1] = f
      /\ \A i \in 1 .. n : gs[i] = frames[i]
      /\ \A i \in 1 .. n + 1 : i \in 1 .. n \/ i = n + 1
  BY <1>3, SMTT(30) DEF Inv, Typed, Last
<1>6. frames' = gs /\ table' = t
  BY DEF Enter, f
<1> HIDE DEF gs
<1>7. \A i \in 1 .. n : Resting(frames[i]) /\ frames[i].ops \in OpLists(Anywhere)
  <2>1. n > 0 => Resting(frames[n])
    BY <1>5 DEF Ready, Resting, Top
  <2> QED BY <1>5, <2>1, SMTT(30) DEF Inv, Stacked, Resting
<1>8. Stacked(gs)
  <2> SUFFICES ASSUME NEW i \in 1 .. n + 1
               PROVE  /\ i < n + 1 => Resting(gs[i])
                      /\ n + 1 > 1 \/ gs[i].kind = "nesting" => gs[i].ops \in OpLists(Anywhere)
                      /\ gs[i].toSave \subseteq Preserved(gs[i])
                      /\ DOMAIN gs[i].saved = Preserved(gs[i]) \ gs[i].toSave
                      /\ gs[i].running \/ gs[i].applied > 0 => gs[i].toSave = {}
    BY <1>5 DEF Stacked
  <2>1. CASE i \in 1 .. n
    BY <1>5, <1>7, <2>1 DEF Inv, Stacked
  <2>2. CASE i = n + 1
    <3>1. n + 1 > 1 => frames # <<>>
      BY <1>5
    <3> QED BY <1>4, <1>5, <2>2, <3>1
  <2> QED BY <1>5, <2>1, <2>2
<1>9. Kept(t, gs, terminal')
  <2>1. \A i \in 1 .. n : \A b \in Backups(frames[i]) :
            /\ b \in DOMAIN t /\ t[b].cloexec
            /\ b >= LeastBackup(frames[i].ops) /\ b # terminal' /\ b \notin DOMAIN frames[i].entry
    BY <1>5 DEF Inv, Kept, SameAt
  <2>2. \A i, j \in 1 .. n : i # j => Backups(frames[i]) \cap Backups(frames[j]) = {}
    BY <1>5 DEF Inv, Kept
  <2>3. \A i \in 1 .. n + 1 : \A b \in Backups(gs[i]) :
            /\ b \in DOMAIN t /\ b >= LeastBackup(gs[i].ops)
            /\ t[b].cloexec /\ b # terminal' /\ b \notin DOMAIN gs[i].entry
    <3> TAKE i \in 1 .. n + 1
    <3>1. CASE i \in 1 .. n
      <4>1. gs[i] = frames[i]
        BY <1>5, <3>1
      <4> QED BY <2>1, <3>1, <4>1
    <3>2. CASE i = n + 1
      <4>1. Backups(gs[i]) = {}
        BY <1>4, <1>5, <3>2
      <4> QED BY <4>1
    <3> QED BY <1>5, <3>1, <3>2
  <2>4. ASSUME NEW i \in 1 .. n + 1, NEW j \in 1 .. n + 1, i # j
        PROVE  Backups(gs[i]) \cap Backups(gs[j]) = {}
    <3>1. CASE i = n + 1 \/ j = n + 1
      BY <1>4, <1>5, <3>1
    <3>2. CASE i \in 1 .. n /\ j \in 1 .. n
      BY <1>5, <2>2, <2>4, <3>2
    <3> QED BY <1>5, <3>1, <3>2
  <2>5. \A i \in 1 .. n + 1 : terminal' \notin Preserved(gs[i])
    BY <1>4, <1>5
  <2> QED BY <1>5, <2>3, <2>4, <2>5 DEF Kept
<1>10. Held(t, gs)
  <2>1. ASSUME NEW i \in 1 .. n, NEW x \in DOMAIN frames[i].saved
        PROVE  /\ frames[i].saved[x].backup = NoFd <=> x \notin DOMAIN frames[i].entry
               /\ frames[i].saved[x].backup # NoFd =>
                     frames[i].entry[x] = [file |-> t[frames[i].saved[x].backup].file,
                                           cloexec |-> frames[i].saved[x].cloexec]
    <3>1. Held(table, frames)
      BY DEF Inv
    <3>2. /\ frames[i].saved[x].backup = NoFd <=> x \notin DOMAIN frames[i].entry
          /\ frames[i].saved[x].backup # NoFd =>
                frames[i].entry[x] = [file |-> table[frames[i].saved[x].backup].file,
                                      cloexec |-> frames[i].saved[x].cloexec]
      BY <3>1 DEF Held
    <3>3. frames[i] \in FrameType
      BY <1>5
    <3>4. frames[i].saved[x].backup # NoFd => frames[i].saved[x].backup \in Backups(frames[i])
      BY <3>3, BackupsAre
    <3>5. \A b \in Backups(frames[i]) : t[b] = table[b]
      BY <1>5 DEF Inv, Kept, SameAt
    <3> QED BY <3>2, <3>4, <3>5
  <2>2. ASSUME NEW i \in 1 .. Len(gs), NEW x \in DOMAIN gs[i].saved
        PROVE  /\ gs[i].saved[x].backup = NoFd <=> x \notin DOMAIN gs[i].entry
               /\ gs[i].saved[x].backup # NoFd =>
                     gs[i].entry[x] = [file |-> t[gs[i].saved[x].backup].file,
                                       cloexec |-> gs[i].saved[x].cloexec]
    <3>1. i # n + 1
      BY <1>4, <1>5, <2>2
    <3>2. i \in 1 .. n /\ gs[i] = frames[i]
      BY <1>5, <3>1
    <3> QED BY <2>1, <2>2, <3>2, SMTT(30)
  <2> QED BY <2>2 DEF Held
<1>11. Untouched(t, gs)
  BY <1>4, <1>5 DEF Untouched, SameAt
<1>12. pipeline = NoPipeline /\ Ends(pipeline.pipes) = {}
  BY DEF Ready, NoPipeline, Ends
<1>13. Piped'
  BY <1>12 DEF Piped
<1> QED BY <1>5, <1>6, <1>8, <1>9, <1>10, <1>11, <1>13 DEF Inv, Typed

LEMMA CommandsAre ==
    ASSUME NEW command \in Commands
    PROVE  /\ command.kind \in Kinds
           /\ command.ops \in OpLists(Anywhere \cup Alone)
           /\ command.kind = "nesting" \/ frames # <<>> => command.ops \in OpLists(Anywhere)
<1>1. OpLists(Anywhere) \subseteq OpLists(Anywhere \cup Alone)
  BY DEF OpLists
<1>2. CASE command \in [kind : Kinds, ops : OpLists(Anywhere)]
  BY <1>1, <1>2
<1>3. CASE frames = <<>> /\ command \in [kind : {"leaf", "exec"}, ops : OpLists(Anywhere \cup Alone)]
  BY <1>3 DEF Kinds
<1> QED BY <1>2, <1>3 DEF Commands

LEMMA Beginning ==
    ASSUME Inv, Begin
    PROVE  Inv'
<1>1. PICK command \in Commands :
        IF terminal \in Preserved(command)
        THEN MoveTerminal(command)
        ELSE Enter(command, table) /\ UNCHANGED terminal
  BY DEF Begin
<1>2. /\ command.kind \in Kinds
      /\ command.ops \in OpLists(Anywhere \cup Alone)
      /\ command.kind = "nesting" \/ frames # <<>> => command.ops \in OpLists(Anywhere)
  BY CommandsAre
<1>3. Ready /\ UNCHANGED pipeline
  BY DEF Begin
<1>4. /\ table \in Tables /\ terminal \in DOMAIN table
      /\ table[terminal] = [file |-> <<"terminal", 3>>, cloexec |-> TRUE]
      /\ \A i \in 1 .. Len(frames) : terminal \notin Preserved(frames[i])
      /\ \A i \in 1 .. Len(frames) : \A b \in Backups(frames[i]) : b # terminal /\ b \in DOMAIN table
  BY DEF Inv, Typed, Kept
<1>5. CASE terminal \notin Preserved(command)
  BY <1>1, <1>2, <1>3, <1>4, <1>5, Entering DEF SameAt
<1>6. CASE terminal \in Preserved(command)
  <2> DEFINE free == Free(table, LeastBackup(command.ops))
             m == Lowest(free)
             d == Drop(table, {terminal})
             t == Put(d, m, table[terminal].file, TRUE)
  <2>1. free # {} /\ terminal' = m /\ Enter(command, t)
    BY <1>1, <1>6 DEF MoveTerminal
  <2>2. m \in FD \ DOMAIN table /\ m >= LeastBackup(command.ops)
    BY <2>1, LowestFree
  <2> HIDE DEF m
  <2>3. d \in Tables /\ DOMAIN d = DOMAIN table \ {terminal} /\ \A y : y # terminal => SameAt(d, table, y)
    BY <1>4, DropTable
  <2> HIDE DEF d
  <2>4. table[terminal].file \in Files /\ table[terminal].file = <<"terminal", 3>>
    BY <1>4, TablesAre
  <2>5. /\ t \in Tables /\ DOMAIN t = DOMAIN d \cup {m}
        /\ t[m] = [file |-> <<"terminal", 3>>, cloexec |-> TRUE]
        /\ \A y : y # m => SameAt(t, d, y)
    <3> DEFINE file == table[terminal].file
    <3> HIDE DEF file
    <3>0. m \in FD /\ file \in Files /\ TRUE \in BOOLEAN
      BY <2>2, <2>4 DEF file
    <3>1. /\ Put(d, m, file, TRUE) \in Tables /\ DOMAIN Put(d, m, file, TRUE) = DOMAIN d \cup {m}
          /\ Put(d, m, file, TRUE)[m] = [file |-> file, cloexec |-> TRUE]
          /\ \A y : y # m => SameAt(Put(d, m, file, TRUE), d, y)
      BY <2>3, <3>0, PutTable
    <3> QED BY <2>4, <3>1 DEF file
  <2> HIDE DEF t
  <2>6. \A i \in 1 .. Len(frames) : \A b \in Backups(frames[i]) : b # m /\ SameAt(t, table, b)
    BY <1>4, <2>2, <2>3, <2>5 DEF SameAt
  <2>7. /\ LeastBackup(command.ops) \in Nat /\ LeastBackup(command.ops) > LastDigit
        /\ \A x \in Preserved(command) : x < LeastBackup(command.ops)
        /\ Preserved(command) \subseteq FD
    BY <1>2, CommandFds
  <2>8. m \notin Preserved(command) /\ m \in Nat /\ m > LastDigit
    BY <2>2, <2>7, LimitAssumption DEF FD, LastDigit
  <2>9. ASSUME NEW i \in 1 .. Len(frames) PROVE m \notin Preserved(frames[i])
    <3>1. frames # <<>> /\ Resting(Top) /\ Len(frames) \in Nat
      BY <1>3 DEF Ready, Resting, Inv, Typed
    <3>2. Resting(frames[i])
      BY <3>1 DEF Inv, Stacked, Top
    <3>3. frames[i].ops \in OpLists(Anywhere)
      BY <3>2 DEF Inv, Stacked, Resting
    <3>5. frames[i] \in FrameType
      BY DEF Inv, Typed
    <3>6. frames[i].ops \in OpLists(Anywhere \cup Alone)
      BY <3>5 DEF FrameType
    <3>4. Preserved(frames[i]) \subseteq 0 .. LastDigit
      BY <3>3, <3>6, CommandFds
    <3> QED BY <2>8, <3>4 DEF LastDigit
  <2> QED BY <1>2, <1>3, <2>1, <2>5, <2>6, <2>8, <2>9, Entering
<1> QED BY <1>5, <1>6
-----------------------------------------------------------------------------
(* Saving a descriptor *)

LEMMA FdToSave ==
    ASSUME Inv, frames # <<>>, Top.toSave # {}
    PROVE  /\ Lowest(Top.toSave) \in Top.toSave
           /\ Lowest(Top.toSave) \in Preserved(Top) /\ Lowest(Top.toSave) \in FD
           /\ Lowest(Top.toSave) \notin DOMAIN Top.saved
           /\ Lowest(Top.toSave) \notin Backups(Top)
           /\ ~Resting(Top) /\ pipeline = NoPipeline
           /\ \A x \in FD \ Backups(Top) : SameAt(table, Top.entry, x)
<1>1. /\ Len(frames) \in 1 .. Len(frames)
      /\ Top = frames[Len(frames)] /\ Top = Last(frames) /\ Top \in FrameType
      /\ Preserved(Top) \subseteq FD
      /\ Preserved(Top) \cap Backups(Top) = {}
  BY TopIs
<1>2. /\ Top.toSave \subseteq Preserved(Top)
      /\ DOMAIN Top.saved = Preserved(Top) \ Top.toSave
      /\ ~Top.running
  BY <1>1 DEF Inv, Stacked
<1>3. Top.toSave \in SUBSET Nat
  BY <1>1, <1>2, LimitAssumption DEF FD
<1>4. Lowest(Top.toSave) \in Top.toSave
  BY <1>3, HasLowest
<1>5. ~Resting(Top) /\ pipeline = NoPipeline
  BY <1>2 DEF Inv, Piped, Resting
<1>6. \A x \in FD \ Backups(Top) : SameAt(table, Top.entry, x)
  BY <1>1, <1>5 DEF Inv, Untouched
<1> QED BY <1>1, <1>2, <1>4, <1>5, <1>6

LEMMA Saving ==
    ASSUME Inv, frames # <<>>, Top.toSave # {},
           NEW fd, fd = Lowest(Top.toSave), NEW backup, NEW cloexec \in BOOLEAN, NEW t \in Tables,
           frames' = WithSaved(fd, backup, cloexec),
           table' = t,
           UNCHANGED <<terminal, pipeline>>,
           \A x : x # backup => SameAt(t, table, x),
           \/ fd \notin DOMAIN table /\ backup = NoFd
           \/ /\ fd \in DOMAIN table
              /\ backup \in FD \ DOMAIN table /\ backup >= LeastBackup(Top.ops)
              /\ cloexec = table[fd].cloexec
              /\ backup \in DOMAIN t
              /\ t[backup] = [file |-> table[fd].file, cloexec |-> TRUE]
    PROVE  Inv'
<1> DEFINE n == Len(frames)
           f == Top
           s == [x \in DOMAIN f.saved \cup {fd} |->
                    IF x = fd THEN [backup |-> backup, cloexec |-> cloexec] ELSE f.saved[x]]
           g == [f EXCEPT !.toSave = f.toSave \ {fd}, !.saved = s]
           gs == [frames EXCEPT ![n] = g]
<1>10. frames' = gs
  BY DEF WithSaved
<1>1. /\ n \in Nat \ {0} /\ n \in 1 .. n
      /\ f = frames[n] /\ f = Last(frames) /\ f \in FrameType
      /\ f.entry \in Tables
      /\ Preserved(f) \subseteq FD /\ Preserved(f) \cap Backups(f) = {}
  BY TopIs
<1>2. /\ fd \in f.toSave /\ fd \in Preserved(f) /\ fd \in FD
      /\ fd \notin DOMAIN f.saved /\ fd \notin Backups(f)
      /\ ~Resting(f) /\ pipeline = NoPipeline
      /\ \A x \in FD \ Backups(f) : SameAt(table, f.entry, x)
  BY FdToSave
<1>3. /\ f.kind \in Kinds /\ f.ops \in OpLists(Anywhere \cup Alone) /\ f.applied \in Nat
      /\ f.toSave \subseteq FD /\ f.saved \in Saved /\ f.running \in BOOLEAN
      /\ f = [kind |-> f.kind, ops |-> f.ops, applied |-> f.applied, toSave |-> f.toSave,
              saved |-> f.saved, entry |-> f.entry, running |-> f.running]
  BY <1>1 DEF FrameType
<1>4. /\ DOMAIN f.saved \subseteq FD
      /\ \A x \in DOMAIN f.saved :
            /\ f.saved[x] \in [backup : FD \cup {NoFd}, cloexec : BOOLEAN]
            /\ f.saved[x].backup # NoFd => f.saved[x].backup \in Backups(f)
  BY <1>1, BackupsAre, TopIs
<1>5. backup \in FD \cup {NoFd} /\ NoFd \notin FD
  BY LimitAssumption DEF FD, NoFd
<1>6. s \in [DOMAIN f.saved \cup {fd} -> [backup : FD \cup {NoFd}, cloexec : BOOLEAN]]
  BY <1>4, <1>5
<1>7. s \in Saved
  <2>1. DOMAIN f.saved \cup {fd} \in SUBSET FD
    BY <1>2, <1>4
  <2> QED BY <1>6, <2>1 DEF Saved
<1>8. /\ DOMAIN s = DOMAIN f.saved \cup {fd}
      /\ s[fd] = [backup |-> backup, cloexec |-> cloexec]
      /\ \A x \in DOMAIN f.saved : s[x] = f.saved[x]
  BY <1>2
<1> HIDE DEF f, s
<1>9. /\ g \in FrameType
      /\ g.kind = f.kind /\ g.ops = f.ops /\ g.applied = f.applied /\ g.running = f.running
      /\ g.entry = f.entry /\ g.toSave = f.toSave \ {fd} /\ g.saved = s
  BY <1>1, <1>3, <1>7 DEF FrameType
<1> HIDE DEF g
<1>11. Backups(g) = {s[x].backup : x \in DOMAIN s} \ {NoFd}
  BY <1>9 DEF Backups
<1>12. Backups(g) = Backups(f) \cup ({backup} \ {NoFd})
  BY <1>8, <1>11 DEF Backups
<1>13. Preserved(g) = Preserved(f)
  BY <1>9 DEF Preserved
<1>14. /\ gs \in Seq(FrameType) /\ Len(gs) = n /\ gs[n] = g /\ Last(gs) = g
       /\ \A i \in 1 .. n : i # n => gs[i] = frames[i]
  BY <1>1, <1>9 DEF Inv, Typed, Last
<1> HIDE DEF gs, n
<1>15. \A i \in 1 .. n : i < n => Resting(frames[i])
  BY DEF Inv, Stacked, n
<1>16. Stacked(gs)
  <2>1. /\ n > 1 \/ f.kind = "nesting" => f.ops \in OpLists(Anywhere)
        /\ f.toSave \subseteq Preserved(f)
        /\ DOMAIN f.saved = Preserved(f) \ f.toSave
        /\ f.running \/ f.applied > 0 => f.toSave = {}
    BY <1>1 DEF Inv, Stacked, n
  <2>2. /\ n > 1 \/ g.kind = "nesting" => g.ops \in OpLists(Anywhere)
        /\ g.toSave \subseteq Preserved(g)
        /\ DOMAIN g.saved = Preserved(g) \ g.toSave
        /\ g.running \/ g.applied > 0 => g.toSave = {}
    BY <1>2, <1>8, <1>9, <1>13, <2>1
  <2>3. ASSUME NEW i \in 1 .. n, i # n
        PROVE  /\ i < n => Resting(gs[i])
               /\ n > 1 \/ gs[i].kind = "nesting" => gs[i].ops \in OpLists(Anywhere)
               /\ gs[i].toSave \subseteq Preserved(gs[i])
               /\ DOMAIN gs[i].saved = Preserved(gs[i]) \ gs[i].toSave
               /\ gs[i].running \/ gs[i].applied > 0 => gs[i].toSave = {}
    BY <1>14, <2>3 DEF Inv, Stacked, n
  <2> QED BY <1>1, <1>14, <2>2, <2>3 DEF Stacked
<1>17. /\ backup # terminal
       /\ \A i \in 1 .. n : \A b \in Backups(frames[i]) : b # backup /\ b \in DOMAIN table
       /\ terminal \in DOMAIN table
       /\ \A i \in 1 .. n : \A b \in Backups(frames[i]) : SameAt(t, table, b)
       /\ SameAt(t, table, terminal)
  <2>1. /\ \A i \in 1 .. n : \A b \in Backups(frames[i]) : b \in DOMAIN table
        /\ terminal \in DOMAIN table
    BY DEF Inv, Kept, n
  <2>2. backup \notin DOMAIN table
    <3>1. DOMAIN table \subseteq FD
      BY TablesAre DEF Inv, Typed
    <3> QED BY <1>5, <3>1
  <2> QED BY <2>1, <2>2
<1>18. backup # NoFd => backup \notin DOMAIN f.entry
  <2>1. backup # NoFd => backup \in FD \ DOMAIN table
    OBVIOUS
  <2>2. backup \notin Backups(f)
    BY <1>1, <1>17
  <2> QED BY <1>2, <2>1, <2>2 DEF SameAt
<1>19. Kept(t, frames, terminal) /\ Held(t, frames)
  <2>1. Kept(table, frames, terminal) /\ Held(table, frames)
    BY DEF Inv
  <2>2. frames \in Seq(FrameType)
    BY DEF Inv, Typed
  <2>3. \A i \in 1 .. Len(frames) : Alike(frames[i], frames[i])
    BY DEF Alike
  <2>4. \A i \in 1 .. Len(frames) : \A b \in Backups(frames[i]) : SameAt(t, table, b)
    BY <1>17 DEF n
  <2>5. Len(frames) <= Len(frames)
    BY <1>1 DEF n
  <2> QED BY <1>17, <2>1, <2>2, <2>3, <2>4, <2>5, Carry
<1>20. Kept(t, gs, terminal)
  <2>1. /\ \A i \in 1 .. n : \A b \in Backups(frames[i]) :
            /\ b \in DOMAIN t /\ b >= LeastBackup(frames[i].ops) /\ t[b].cloexec
            /\ b # terminal /\ b \notin DOMAIN frames[i].entry
        /\ \A i, j \in 1 .. n : i # j => Backups(frames[i]) \cap Backups(frames[j]) = {}
        /\ \A i \in 1 .. n : terminal \notin Preserved(frames[i])
        /\ terminal \in DOMAIN t
        /\ t[terminal] = [file |-> <<"terminal", 3>>, cloexec |-> TRUE]
    BY <1>19 DEF Kept, n
  <2>2. backup # NoFd =>
            /\ backup \in DOMAIN t /\ backup >= LeastBackup(f.ops) /\ t[backup].cloexec
            /\ backup # terminal /\ backup \notin DOMAIN f.entry
    BY <1>17, <1>18 DEF f
  <2>3. \A b \in Backups(g) :
            /\ b \in DOMAIN t /\ b >= LeastBackup(g.ops) /\ t[b].cloexec
            /\ b # terminal /\ b \notin DOMAIN g.entry
    <3> TAKE b \in Backups(g)
    <3>1. CASE b \in Backups(f)
      <4>1. f = frames[n] /\ n \in 1 .. n /\ g.ops = f.ops /\ g.entry = f.entry
        BY <1>1, <1>9
      <4> QED BY <2>1, <3>1, <4>1
    <3>2. CASE b = backup /\ backup # NoFd
      <4>1. g.ops = f.ops /\ g.entry = f.entry
        BY <1>9
      <4> QED BY <2>2, <3>2, <4>1
    <3>3. b \in Backups(f) \/ (b = backup /\ backup # NoFd)
      BY <1>12
    <3> QED BY <3>1, <3>2, <3>3
  <2>4. ASSUME NEW i \in 1 .. n, NEW b \in Backups(gs[i])
        PROVE  /\ b \in DOMAIN t /\ b >= LeastBackup(gs[i].ops) /\ t[b].cloexec
               /\ b # terminal /\ b \notin DOMAIN gs[i].entry
    BY <1>14, <2>1, <2>3, <2>4
  <2>5. ASSUME NEW i \in 1 .. n, i # n
        PROVE  Backups(frames[i]) \cap Backups(g) = {}
    BY <1>1, <1>12, <1>17, <2>1, <2>5
  <2>6. ASSUME NEW i \in 1 .. n, NEW j \in 1 .. n, i # j
        PROVE  Backups(gs[i]) \cap Backups(gs[j]) = {}
    BY <1>14, <2>1, <2>5, <2>6
  <2>7. \A i \in 1 .. n : terminal \notin Preserved(gs[i])
    <3> TAKE i \in 1 .. n
    <3>1. CASE i = n
      BY <1>1, <1>13, <1>14, <2>1, <3>1
    <3>2. CASE i # n
      BY <1>14, <2>1, <3>2
    <3> QED BY <3>1, <3>2
  <2> QED BY <1>14, <2>1, <2>4, <2>6, <2>7 DEF Kept
<1>21. Held(t, gs)
  <2>1. ASSUME NEW x \in DOMAIN s
        PROVE  /\ s[x].backup = NoFd <=> x \notin DOMAIN f.entry
               /\ s[x].backup # NoFd =>
                    f.entry[x] = [file |-> t[s[x].backup].file, cloexec |-> s[x].cloexec]
    <3>1. CASE x = fd
      <4>1. SameAt(table, f.entry, fd)
        BY <1>2
      <4>2. s[x].backup = backup /\ s[x].cloexec = cloexec
        BY <1>8, <3>1
      <4>3. CASE fd \notin DOMAIN table /\ backup = NoFd
        BY <3>1, <4>1, <4>2, <4>3 DEF SameAt
      <4>4. CASE fd \in DOMAIN table /\ backup \in FD
        <5>1. /\ cloexec = table[fd].cloexec /\ t[backup].file = table[fd].file
              /\ backup # NoFd
          BY <1>5, <4>4
        <5>2. table[fd] \in [file : Files, cloexec : BOOLEAN]
          BY <4>4, TablesAre DEF Inv, Typed
        <5>3. table[fd] = [file |-> table[fd].file, cloexec |-> table[fd].cloexec]
          BY <5>2
        <5> QED BY <3>1, <4>1, <4>2, <4>4, <5>1, <5>3 DEF SameAt
      <4> QED BY <4>3, <4>4
    <3>2. CASE x \in DOMAIN f.saved
      <4>1. Held(t, frames) /\ n \in 1 .. Len(frames) /\ f = frames[n] /\ s[x] = f.saved[x]
        BY <1>1, <1>8, <1>19, <3>2 DEF n
      <4>2. /\ frames[n].saved[x].backup = NoFd <=> x \notin DOMAIN frames[n].entry
            /\ frames[n].saved[x].backup # NoFd =>
                  frames[n].entry[x] = [file |-> t[frames[n].saved[x].backup].file,
                                        cloexec |-> frames[n].saved[x].cloexec]
        BY <3>2, <4>1 DEF Held
      <4> QED BY <4>1, <4>2
    <3> QED BY <1>8, <3>1, <3>2
  <2>2. ASSUME NEW i \in 1 .. Len(gs), NEW x \in DOMAIN gs[i].saved
        PROVE  /\ gs[i].saved[x].backup = NoFd <=> x \notin DOMAIN gs[i].entry
               /\ gs[i].saved[x].backup # NoFd =>
                     gs[i].entry[x] = [file |-> t[gs[i].saved[x].backup].file,
                                       cloexec |-> gs[i].saved[x].cloexec]
    <3>1. CASE i = n
      <4>1. gs[i] = g /\ x \in DOMAIN s
        BY <1>9, <1>14, <2>2, <3>1
      <4>2. gs[i].saved = s /\ gs[i].entry = f.entry
        BY <1>9, <4>1
      <4> QED BY <2>1, <4>1, <4>2
    <3>2. CASE i # n
      <4>1. gs[i] = frames[i] /\ i \in 1 .. Len(frames) /\ x \in DOMAIN frames[i].saved
        BY <1>14, <2>2, <3>2 DEF n
      <4> QED BY <1>19, <4>1 DEF Held
    <3> QED BY <3>1, <3>2
  <2> QED BY <2>2 DEF Held
<1>22. Untouched(t, gs)
  <2>1. ASSUME NEW x \in FD \ Backups(g) PROVE SameAt(t, g.entry, x)
    <3>1. x \in FD \ Backups(f) /\ x # backup
      BY <1>5, <1>12, <2>1
    <3> QED BY <1>2, <1>9, <3>1 DEF SameAt
  <2> QED BY <1>14, <2>1 DEF Untouched
<1>23. Piped'
  BY <1>2 DEF Piped, NoPipeline, Ends
<1> QED BY <1>10, <1>14, <1>16, <1>20, <1>21, <1>22, <1>23 DEF Inv, Typed
LEMMA Saves ==
    ASSUME Inv, Save
    PROVE  Inv' /\ ComesBack
<1> DEFINE fd == Lowest(Top.toSave)
           free == Free(table, LeastBackup(Top.ops))
           Recorded(backup, cloexec) == WithSaved(fd, backup, cloexec)
<1>1. frames # <<>> /\ Top.toSave # {} /\ UNCHANGED <<terminal, pipeline>>
  BY DEF Save
<1>2. \/ fd \notin DOMAIN table /\ frames' = Recorded(NoFd, FALSE) /\ UNCHANGED table
      \/ /\ fd \in DOMAIN table /\ free # {}
         /\ frames' = Recorded(Lowest(free), table[fd].cloexec)
         /\ table' = Put(table, Lowest(free), table[fd].file, TRUE)
      \/ GiveUp
  BY DEF Save
<1>3. table \in Tables /\ frames \in Seq(FrameType)
  BY DEF Inv, Typed
<1>4. \A backup, cloexec : Len(Recorded(backup, cloexec)) = Len(frames) /\ Len(frames) \in Nat
  BY <1>1, <1>3, TopIs DEF WithSaved
<1>5. CASE fd \notin DOMAIN table /\ frames' = Recorded(NoFd, FALSE) /\ UNCHANGED table
  <2>1. \A x : SameAt(table, table, x)
    BY DEF SameAt
  <2>2. table' = table /\ FALSE \in BOOLEAN
    BY <1>5
  <2>3. Inv'
    BY <1>1, <1>3, <1>5, <2>1, <2>2, Saving
  <2>4. Len(frames') = Len(frames) /\ Len(frames) \in Nat
    BY <1>4, <1>5
  <2>5. ComesBack
    BY <2>4 DEF ComesBack
  <2> QED BY <2>3, <2>5
<1>6. CASE /\ fd \in DOMAIN table /\ free # {}
           /\ frames' = Recorded(Lowest(free), table[fd].cloexec)
           /\ table' = Put(table, Lowest(free), table[fd].file, TRUE)
  <2> DEFINE backup == Lowest(free)
             file == table[fd].file
             cloexec == table[fd].cloexec
             t == Put(table, backup, file, TRUE)
  <2>1. backup \in FD \ DOMAIN table /\ backup >= LeastBackup(Top.ops)
    BY <1>6, LowestFree
  <2>2. file \in Files /\ cloexec \in BOOLEAN
    <3>1. table[fd] \in [file : Files, cloexec : BOOLEAN]
      BY <1>3, <1>6, TablesAre
    <3> QED BY <3>1
  <2>3. frames' = Recorded(backup, cloexec) /\ table' = t /\ fd \in DOMAIN table
    BY <1>6
  <2> HIDE DEF backup, file
  <2>4. /\ t \in Tables /\ DOMAIN t = DOMAIN table \cup {backup}
        /\ t[backup] = [file |-> file, cloexec |-> TRUE]
        /\ \A y : y # backup => SameAt(t, table, y)
    BY <1>3, <2>1, <2>2, PutTable, TRUE \in BOOLEAN
  <2> HIDE DEF t
  <2>5. backup \in DOMAIN t /\ t[backup] = [file |-> table[fd].file, cloexec |-> TRUE]
    BY <2>4 DEF file
  <2>6. cloexec = table[fd].cloexec
    OBVIOUS
  <2>7. fd \in DOMAIN table
    BY <2>3
  <2> HIDE DEF cloexec, fd
  <2>8. Inv'
    <3>1. fd = Lowest(Top.toSave)
      BY DEF fd
    <3>2. frames' = WithSaved(fd, backup, cloexec) /\ table' = t
      BY <2>3
    <3> QED BY <1>1, <2>1, <2>2, <2>4, <2>5, <2>6, <2>7, <3>1, <3>2, Saving
  <2> QED BY <1>4, <2>3, <2>8 DEF ComesBack
<1>7. CASE GiveUp
  BY <1>1, <1>7, GivingUp
<1> QED BY <1>2, <1>5, <1>6, <1>7

-----------------------------------------------------------------------------
(* Applying a redirection, running the action *)

LEMMA Advancing ==
    ASSUME Inv, frames # <<>>, Top.toSave = {},
           NEW g \in FrameType, Alike(Top, g), g.toSave = {}, Top.running => g.running,
           NEW t \in Tables, \A x : x \notin Preserved(Top) => SameAt(t, table, x),
           frames' = [frames EXCEPT ![Len(frames)] = g], table' = t,
           UNCHANGED <<terminal, pipeline>>
    PROVE  Inv' /\ ComesBack
<1> DEFINE n == Len(frames)
           gs == [frames EXCEPT ![n] = g]
<1>1. /\ n \in Nat \ {0} /\ n \in 1 .. n
      /\ Top = frames[n] /\ Top = Last(frames) /\ Top \in FrameType
      /\ Preserved(Top) \cap Backups(Top) = {}
  BY TopIs
<1>2. frames' = gs
  OBVIOUS
<1>3. /\ gs \in Seq(FrameType) /\ Len(gs) = n /\ gs[n] = g /\ Last(gs) = g /\ gs # <<>>
      /\ \A i \in 1 .. n : i # n => gs[i] = frames[i]
  BY <1>1 DEF Inv, Typed, Last
<1>4. Len(frames) = n /\ frames \in Seq(FrameType)
  BY DEF Inv, Typed
<1> HIDE DEF gs, n
<1>5. /\ Backups(g) = Backups(Top) /\ Preserved(g) = Preserved(Top)
      /\ g.kind = Top.kind /\ g.ops = Top.ops /\ g.saved = Top.saved /\ g.entry = Top.entry
  BY DEF Alike, Backups, Preserved
<1>6. \A i \in 1 .. n : Alike(frames[i], gs[i]) /\ Backups(gs[i]) = Backups(frames[i])
  BY <1>1, <1>3, <1>5 DEF Alike
<1>7. SameAt(t, table, terminal)
  <2>1. terminal \notin Preserved(Top)
    BY <1>1, <1>4 DEF Inv, Kept
  <2> QED BY <2>1
<1>8. ASSUME NEW i \in 1 .. n, NEW b \in Backups(frames[i])
      PROVE  SameAt(t, table, b)
  <2>1. CASE i = n
    BY <1>1, <1>8, <2>1
  <2>2. CASE i # n
    <3>1. n > 1 /\ frames[i] \in FrameType
      BY <1>1, <1>4, <2>2
    <3>2. Top.ops \in OpLists(Anywhere) /\ Top.ops \in OpLists(Anywhere \cup Alone)
      BY <1>1, <1>4, <3>1 DEF Inv, Stacked, FrameType
    <3>3. Preserved(Top) \subseteq 0 .. LastDigit
      BY <3>2, CommandFds
    <3>4. b >= LeastBackup(frames[i].ops) /\ b \in FD
      BY <1>4, <1>8, <3>1, BackupsAre DEF Inv, Kept
    <3>5. LeastBackup(frames[i].ops) > LastDigit /\ LeastBackup(frames[i].ops) \in Nat
      BY <3>1, CommandFds DEF FrameType
    <3>6. b \notin Preserved(Top)
      BY <3>3, <3>4, <3>5, LimitAssumption DEF LastDigit, FD
    <3> QED BY <3>6
  <2> QED BY <2>1, <2>2
<1>9. Kept(t, gs, terminal) /\ Held(t, gs)
  <2>1. Kept(table, frames, terminal) /\ Held(table, frames)
    BY DEF Inv
  <2>2. Len(gs) <= Len(frames) /\ Len(gs) = Len(frames)
    BY <1>1, <1>3, <1>4
  <2> QED BY <1>3, <1>4, <1>6, <1>7, <1>8, <2>1, <2>2, Carry
<1>10. Stacked(gs)
  <2>1. ASSUME NEW i \in 1 .. n
        PROVE  /\ i < n => Resting(gs[i])
               /\ n > 1 \/ gs[i].kind = "nesting" => gs[i].ops \in OpLists(Anywhere)
               /\ gs[i].toSave \subseteq Preserved(gs[i])
               /\ DOMAIN gs[i].saved = Preserved(gs[i]) \ gs[i].toSave
               /\ gs[i].running \/ gs[i].applied > 0 => gs[i].toSave = {}
    <3>1. CASE i = n
      <4>1. /\ n > 1 \/ Top.kind = "nesting" => Top.ops \in OpLists(Anywhere)
            /\ DOMAIN Top.saved = Preserved(Top) \ {}
        BY <1>1, <1>4 DEF Inv, Stacked
      <4>2. gs[i] = g /\ ~(i < n)
        BY <1>1, <1>3, <3>1
      <4> QED BY <1>5, <4>1, <4>2
    <3>2. CASE i # n
      BY <1>3, <1>4, <3>2 DEF Inv, Stacked
    <3> QED BY <3>1, <3>2
  <2> QED BY <1>3, <2>1 DEF Stacked
<1>11. Untouched(t, gs)
  <2>1. ASSUME ~Resting(g), NEW x \in FD \ Backups(g), x \notin Preserved(g)
        PROVE  SameAt(t, g.entry, x)
    <3>1. ~Resting(Top)
      BY <1>5, <2>1 DEF Resting
    <3>2. SameAt(table, Top.entry, x)
      BY <1>1, <1>5, <2>1, <3>1 DEF Inv, Untouched
    <3> QED BY <1>5, <2>1, <3>2 DEF SameAt
  <2> QED BY <1>3, <2>1 DEF Untouched
<1>12. Piped'
  <2>1. AllBackups' = AllBackups
    <3>1. DOMAIN gs = 1 .. n /\ DOMAIN frames = 1 .. n
      BY <1>3, <1>4
    <3> QED BY <1>2, <1>6, <3>1 DEF AllBackups
  <2>2. Resting(Top) => Resting(g)
    BY <1>5 DEF Resting
  <2>3. Top' = g
    BY <1>2, <1>3 DEF Top, Last
  <2> QED BY <2>1, <2>2, <2>3 DEF Inv, Piped
<1>13. Inv'
  BY <1>2, <1>3, <1>9, <1>10, <1>11, <1>12 DEF Inv, Typed
<1>14. ComesBack
  BY <1>1, <1>2, <1>3, <1>4 DEF ComesBack
<1> QED BY <1>13, <1>14

LEMMA Applies ==
    ASSUME Inv, ApplyNext
    PROVE  Inv' /\ ComesBack
<1> DEFINE op == Top.ops[Top.applied + 1]
           t == Apply(table, op).table
<1>1. /\ frames # <<>> /\ Top.toSave = {} /\ Top.applied < Len(Top.ops)
      /\ UNCHANGED <<terminal, pipeline>>
  BY DEF ApplyNext
<1>2. /\ Len(frames) \in 1 .. Len(frames) /\ Top = frames[Len(frames)] /\ Top \in FrameType
  BY <1>1, TopIs
<1>3. /\ Top.applied \in Nat /\ Top.running \in BOOLEAN /\ Top.ops \in OpLists(Anywhere \cup Alone)
      /\ Top = [Top EXCEPT !.running = Top.running]
  BY <1>2 DEF FrameType
<1>4. op \in Redirection /\ Targets(op) \subseteq Preserved(Top)
  <2>1. Top.applied + 1 \in DOMAIN Top.ops /\ op \in Anywhere \cup Alone
    BY <1>1, <1>3, OpListsAre
  <2>2. Targets(op) \subseteq Redirected(Top.ops)
    BY <2>1 DEF Redirected
  <2> QED BY <2>1, <2>2, RedirectionsAssumption DEF Preserved
<1>5. table \in Tables
  BY DEF Inv, Typed
<1>6. t \in Tables /\ \A x : x \notin Preserved(Top) => SameAt(t, table, x)
  BY <1>4, <1>5, ApplyTable
<1>7. CASE Apply(table, op).ok
  <2> DEFINE g == [Top EXCEPT !.applied = Top.applied + 1, !.running = Top.running]
  <2>1. g \in FrameType /\ Alike(Top, g) /\ g.toSave = {} /\ g.running = Top.running
    <3>1. Top.applied + 1 \in Nat
      BY <1>3
    <3> QED BY <1>1, <1>2, <1>3, <3>1 DEF FrameType, Alike
  <2>2. g = [Top EXCEPT !.applied = Top.applied + 1]
    BY <1>2, <1>3 DEF FrameType
  <2>3. frames' = [frames EXCEPT ![Len(frames)].applied = @ + 1] /\ table' = t
    BY <1>7 DEF ApplyNext
  <2>4. frames' = [frames EXCEPT ![Len(frames)] = g]
    BY <1>2, <2>2, <2>3
  <2> HIDE DEF g, t
  <2> QED BY <1>1, <1>6, <2>1, <2>3, <2>4, Advancing
<1>8. CASE ~Apply(table, op).ok
  <2>1. Leave(t)
    BY <1>8 DEF ApplyNext
  <2> HIDE DEF t
  <2> QED BY <1>1, <1>6, <2>1, Leaving
<1> QED BY <1>7, <1>8

LEMMA Runs ==
    ASSUME Inv, RunAction
    PROVE  Inv' /\ ComesBack
<1> DEFINE g == [Top EXCEPT !.applied = Top.applied, !.running = TRUE]
<1>1. /\ frames # <<>> /\ Top.toSave = {} /\ UNCHANGED <<table, terminal, pipeline>>
      /\ frames' = [frames EXCEPT ![Len(frames)].running = TRUE]
  BY DEF RunAction
<1>2. /\ Len(frames) \in 1 .. Len(frames) /\ Top = frames[Len(frames)] /\ Top \in FrameType
  BY <1>1, TopIs
<1>3. g \in FrameType /\ Alike(Top, g) /\ g.toSave = {} /\ g.running = TRUE
  <2>1. Top.applied \in Nat /\ TRUE \in BOOLEAN
    BY <1>2 DEF FrameType
  <2>2. g \in FrameType /\ Alike(Top, g) /\ g.toSave = Top.toSave /\ g.running = TRUE
    BY <1>2, <2>1 DEF FrameType, Alike
  <2> QED BY <1>1, <2>2
<1>4. g = [Top EXCEPT !.running = TRUE]
  BY <1>2 DEF FrameType
<1>5. frames' = [frames EXCEPT ![Len(frames)] = g]
  BY <1>1, <1>2, <1>4
<1>6. table \in Tables /\ table' = table /\ \A x : SameAt(table, table, x)
  BY <1>1 DEF Inv, Typed, SameAt
<1> HIDE DEF g
<1> QED BY <1>1, <1>3, <1>5, <1>6, Advancing

LEMMA Returns ==
    ASSUME Inv, Return
    PROVE  Inv' /\ ComesBack
<1>1. frames # <<>> /\ Top.running /\ Leave(table) /\ UNCHANGED <<terminal, pipeline>>
  BY DEF Return
<1>2. Top.toSave = {}
  BY <1>1, TopIs DEF Inv, Stacked
<1>3. table \in Tables /\ \A x : SameAt(table, table, x)
  BY DEF Inv, Typed, SameAt
<1> QED BY <1>1, <1>2, <1>3, Leaving

-----------------------------------------------------------------------------
(* Pipelines *)

PipelineType(p) ==
    /\ DOMAIN p = {"stages", "pipes", "members", "launched"}
    /\ p = [x \in DOMAIN p |-> p[x]]
    /\ p.pipes \in Seq(PipeType)

LEMMA Piping ==
    ASSUME Inv, NEW t \in Tables, table' = t, UNCHANGED <<terminal, frames>>,
           frames # <<>> => Resting(Top),
           \A x \in AllBackups \cup {terminal} : SameAt(t, table, x),
           PipelineType(pipeline'),
           ~pipeline'.launched =>
                Ends(pipeline'.pipes) \cap (AllBackups \cup {terminal}) = {}
    PROVE  Inv' /\ ComesBack
<1>1. frames \in Seq(FrameType) /\ DOMAIN frames = 1 .. Len(frames) /\ Len(frames) \in Nat
  BY DEF Inv, Typed
<1>2. Kept(t, frames, terminal) /\ Held(t, frames)
  <2>1. Kept(table, frames, terminal) /\ Held(table, frames)
    BY DEF Inv
  <2>2. \A i \in 1 .. Len(frames) : Alike(frames[i], frames[i])
    BY DEF Alike
  <2>3. \A i \in 1 .. Len(frames) : \A b \in Backups(frames[i]) : SameAt(t, table, b)
    BY <1>1 DEF AllBackups
  <2>4. Len(frames) <= Len(frames)
    BY <1>1
  <2> QED BY <1>1, <2>1, <2>2, <2>3, <2>4, Carry
<1>3. Untouched(t, frames)
  BY DEF Untouched, Top, Last
<1>4. AllBackups' = AllBackups /\ Top' = Top
  BY DEF AllBackups, Top
<1>5. Piped'
  BY <1>4 DEF Piped
<1>6. Typed'
  BY <1>1 DEF Typed, PipelineType
<1>7. Stacked(frames)
  BY DEF Inv
<1>8. Inv'
  BY <1>2, <1>3, <1>5, <1>6, <1>7 DEF Inv
<1> QED BY <1>1, <1>8 DEF ComesBack

LEMMA NoPipelineIs == PipelineType(NoPipeline) /\ Ends(NoPipeline.pipes) = {}
BY DEF PipelineType, NoPipeline, Ends

\* What holds of a pipeline that is being launched.
LEMMA LaunchingIs ==
    ASSUME Inv
    PROVE  /\ table \in Tables /\ \A x : SameAt(table, table, x)
           /\ PipelineType(pipeline)
           /\ AllBackups \cup {terminal} \subseteq DOMAIN table
           /\ pipeline # NoPipeline /\ frames # <<>> => Resting(Top)
           /\ Launching => pipeline # NoPipeline
           /\ Launching => Ends(pipeline.pipes) \cap (AllBackups \cup {terminal}) = {}
<1>1. AllBackups \cup {terminal} \subseteq DOMAIN table
  BY DEF Inv, Typed, Kept, AllBackups
<1>2. Launching => pipeline # NoPipeline
  BY DEF Launching, NoPipeline
<1>3. /\ pipeline # NoPipeline /\ frames # <<>> => Resting(Top)
      /\ Launching => Ends(pipeline.pipes) \cap (AllBackups \cup {terminal}) = {}
  BY DEF Inv, Piped, Launching
<1> QED BY <1>1, <1>2, <1>3 DEF Inv, Typed, SameAt, PipelineType

LEMMA Launches ==
    ASSUME Inv, Launch
    PROVE  Inv' /\ ComesBack
<1>1. /\ Ready /\ UNCHANGED <<table, terminal, frames>>
      /\ \E stages : pipeline' = [NoPipeline EXCEPT !.stages = stages]
  BY DEF Launch
<1>2. PipelineType(pipeline') /\ Ends(pipeline'.pipes) = {}
  BY <1>1 DEF PipelineType, NoPipeline, Ends
<1>3. frames # <<>> => Resting(Top)
  BY <1>1 DEF Ready, Resting
<1> QED BY <1>1, <1>2, <1>3, LaunchingIs, Piping

LEMMA MakesPipe ==
    ASSUME Inv, MakePipe
    PROVE  Inv' /\ ComesBack
<1> DEFINE free == Free(table, 0)
           read == Lowest(free)
           write == Lowest(free \ {read})
           k == Len(pipeline.pipes) + 1
           made == [read |-> read, write |-> write]
           first == Put(table, read, <<"read", k>>, FALSE)
           second == Put(first, write, <<"write", k>>, FALSE)
<1>1. Launching /\ UNCHANGED <<terminal, frames>>
  BY DEF MakePipe
<1>2. /\ table \in Tables /\ \A x : SameAt(table, table, x)
      /\ PipelineType(pipeline) /\ AllBackups \cup {terminal} \subseteq DOMAIN table
      /\ frames # <<>> => Resting(Top)
      /\ Ends(pipeline.pipes) \cap (AllBackups \cup {terminal}) = {}
  BY <1>1, LaunchingIs
<1>3. CASE Cardinality(free) < 2
  <2>1. pipeline' = NoPipeline /\ table' = table
    BY <1>3 DEF MakePipe
  <2>2. PipelineType(pipeline') /\ Ends(pipeline'.pipes) = {}
    BY <2>1, NoPipelineIs
  <2> QED BY <1>1, <1>2, <2>1, <2>2, Piping
<1>4. CASE ~(Cardinality(free) < 2)
  <2>1. table' = second /\ pipeline' = [pipeline EXCEPT !.pipes = Append(@, made)]
    BY <1>4 DEF MakePipe
  <2>2. free # {} /\ free \ {read} # {}
    <3>1. free # {}
      BY <1>4, FS_EmptySet
    <3>2. free # {read}
      BY <1>4, FS_Singleton
    <3> QED BY <3>1, <3>2
  <2>3. read \in FD \ DOMAIN table /\ write \in FD \ DOMAIN table
    <3>1. free \in SUBSET Nat /\ free \ {read} \in SUBSET Nat
      BY LimitAssumption DEF Free, FD
    <3>2. read \in free /\ write \in free \ {read}
      BY <2>2, <3>1, HasLowest
    <3> QED BY <3>2 DEF Free
  <2>4. k \in Nat /\ pipeline.pipes \in Seq(PipeType)
    BY <1>2 DEF PipelineType
  <2>5. <<"read", k>> \in Files /\ <<"write", k>> \in Files
    BY <2>4 DEF Files
  <2> HIDE DEF read, write, k, free
  <2>6. first \in Tables /\ \A y : y # read => SameAt(first, table, y)
    BY <1>2, <2>3, <2>5, PutTable, FALSE \in BOOLEAN
  <2> HIDE DEF first
  <2>7. second \in Tables /\ \A y : y # write => SameAt(second, first, y)
    BY <2>3, <2>5, <2>6, PutTable, FALSE \in BOOLEAN
  <2> HIDE DEF second
  <2>8. \A x \in AllBackups \cup {terminal} : SameAt(second, table, x)
    BY <1>2, <2>3, <2>6, <2>7 DEF SameAt
  <2>9. made \in PipeType
    BY <2>3 DEF PipeType
  <2>10. /\ PipelineType(pipeline')
         /\ pipeline'.pipes = Append(pipeline.pipes, made)
    <3>1. Append(pipeline.pipes, made) \in Seq(PipeType)
      BY <2>4, <2>9
    <3> HIDE DEF made
    <3> QED BY <1>2, <2>1, <3>1 DEF PipelineType
  <2>11. Ends(Append(pipeline.pipes, made)) \subseteq Ends(pipeline.pipes) \cup {read, write}
    BY <2>4, <2>9 DEF Ends
  <2>12. Ends(pipeline'.pipes) \cap (AllBackups \cup {terminal}) = {}
    BY <1>2, <2>3, <2>10, <2>11
  <2> QED BY <1>1, <1>2, <2>1, <2>7, <2>8, <2>10, <2>12, Piping
<1> QED BY <1>3, <1>4

LEMMA Forks ==
    ASSUME Inv, Fork \/ ForkFailure
    PROVE  Inv' /\ ComesBack
<1>1. Launching /\ UNCHANGED <<table, terminal, frames>>
  BY DEF Fork, ForkFailure
<1>2. /\ table \in Tables /\ \A x : SameAt(table, table, x) /\ table' = table
      /\ PipelineType(pipeline)
      /\ frames # <<>> => Resting(Top)
      /\ Ends(pipeline.pipes) \cap (AllBackups \cup {terminal}) = {}
  BY <1>1, LaunchingIs
<1>3. CASE Fork
  <2>1. \E members : pipeline' = [pipeline EXCEPT !.members = members]
    BY <1>3 DEF Fork
  <2>2. PipelineType(pipeline') /\ pipeline'.pipes = pipeline.pipes
    BY <1>2, <2>1 DEF PipelineType
  <2> QED BY <1>1, <1>2, <2>2, Piping
<1>4. CASE ForkFailure
  <2>1. pipeline' = NoPipeline
    BY <1>4 DEF ForkFailure
  <2>2. PipelineType(pipeline') /\ Ends(pipeline'.pipes) = {}
    BY <2>1, NoPipelineIs
  <2> QED BY <1>1, <1>2, <2>2, Piping
<1> QED BY <1>3, <1>4

LEMMA LaunchesAll ==
    ASSUME Inv, Launched
    PROVE  Inv' /\ ComesBack
<1> DEFINE t == Drop(table, Ends(pipeline.pipes))
<1>1. /\ Launching /\ UNCHANGED <<terminal, frames>> /\ table' = t
      /\ pipeline' = [pipeline EXCEPT !.launched = TRUE]
  BY DEF Launched
<1>2. /\ table \in Tables
      /\ PipelineType(pipeline)
      /\ frames # <<>> => Resting(Top)
      /\ Ends(pipeline.pipes) \cap (AllBackups \cup {terminal}) = {}
  BY <1>1, LaunchingIs
<1>3. t \in Tables /\ \A y : y \notin Ends(pipeline.pipes) => SameAt(t, table, y)
  BY <1>2, DropTable
<1> HIDE DEF t
<1>4. PipelineType(pipeline') /\ pipeline'.launched
  BY <1>1, <1>2 DEF PipelineType
<1> QED BY <1>1, <1>2, <1>3, <1>4, Piping

LEMMA EndsPipeline ==
    ASSUME Inv, Ended
    PROVE  Inv' /\ ComesBack
<1>1. pipeline.launched /\ pipeline' = NoPipeline /\ UNCHANGED <<table, terminal, frames>>
  BY DEF Ended
<1>2. pipeline # NoPipeline
  BY <1>1 DEF NoPipeline
<1>3. table \in Tables /\ (\A x : SameAt(table, table, x)) /\ (frames # <<>> => Resting(Top))
  BY <1>2, LaunchingIs
<1>4. PipelineType(pipeline') /\ Ends(pipeline'.pipes) = {}
  BY <1>1, NoPipelineIs
<1> QED BY <1>1, <1>3, <1>4, Piping
-----------------------------------------------------------------------------
(* Theorems *)

LEMMA InitInv == Init => Inv
<1> SUFFICES ASSUME Init PROVE Inv
  OBVIOUS
<1>1. /\ table = [x \in 0 .. 3 |-> [file |-> <<"terminal", x>>, cloexec |-> x = 3]]
      /\ terminal = 3 /\ frames = <<>> /\ pipeline = NoPipeline
  BY DEF Init
<1>2. table \in Tables
  <2>1. 0 .. 3 \in SUBSET FD
    BY LimitAssumption DEF FD
  <2>2. \A x \in 0 .. 3 : <<"terminal", x>> \in Files /\ (x = 3) \in BOOLEAN
    BY DEF Files
  <2>3. table \in [0 .. 3 -> [file : Files, cloexec : BOOLEAN]]
    BY <1>1, <2>2
  <2> QED BY <2>1, <2>3 DEF Tables
<1>3. Typed
  BY <1>1, <1>2, NoPipelineIs DEF Typed, PipelineType
<1>4. terminal \in DOMAIN table /\ table[terminal] = [file |-> <<"terminal", 3>>, cloexec |-> TRUE]
  <2>1. 3 \in 0 .. 3 /\ (3 = 3) = TRUE
    OBVIOUS
  <2>2. table[3] = [file |-> <<"terminal", 3>>, cloexec |-> 3 = 3]
    BY <1>1, <2>1
  <2> QED BY <1>1, <2>1, <2>2
<1>5. Stacked(frames) /\ Held(table, frames) /\ Untouched(table, frames)
  BY <1>1 DEF Stacked, Held, Untouched
<1>6. Kept(table, frames, terminal)
  BY <1>1, <1>4 DEF Kept
<1>7. Piped
  BY <1>1, NoPipelineIs DEF Piped
<1> QED BY <1>3, <1>5, <1>6, <1>7 DEF Inv

LEMMA StepInv ==
    ASSUME Inv, [Next]_vars
    PROVE  Inv' /\ (ComesBack \/ UNCHANGED vars)
<1>1. CASE Begin
  <2>1. Inv'
    BY <1>1, Beginning
  <2>2. ComesBack
    <3>1. \E f : frames' = Append(frames, f)
      BY <1>1 DEF Begin, MoveTerminal, Enter
    <3>2. frames \in Seq(FrameType)
      BY DEF Inv, Typed
    <3>3. Len(frames') = Len(frames) + 1 /\ Len(frames) \in Nat
      BY <3>1, <3>2
    <3>4. ~(Len(frames') < Len(frames))
      BY <3>3
    <3> QED BY <3>4 DEF ComesBack
  <2> QED BY <2>1, <2>2
<1>2. CASE Save
  BY <1>2, Saves
<1>3. CASE ApplyNext
  BY <1>3, Applies
<1>4. CASE RunAction
  BY <1>4, Runs
<1>5. CASE Return
  BY <1>5, Returns
<1>6. CASE Launch
  BY <1>6, Launches
<1>7. CASE MakePipe
  BY <1>7, MakesPipe
<1>8. CASE Fork \/ ForkFailure
  BY <1>8, Forks
<1>9. CASE Launched
  BY <1>9, LaunchesAll
<1>10. CASE Ended
  BY <1>10, EndsPipeline
<1>11. CASE UNCHANGED vars
  <2>1. table' = table /\ terminal' = terminal /\ frames' = frames /\ pipeline' = pipeline
    BY <1>11 DEF vars
  <2> QED BY <1>11, <2>1 DEF Inv, Typed, Piped, AllBackups, Top
<1> QED BY <1>1, <1>2, <1>3, <1>4, <1>5, <1>6, <1>7, <1>8, <1>9, <1>10, <1>11 DEF Next

\* The stack of saved descriptors and the table they live in agree in every
\* state: what each frame has saved is there to be restored, out of reach of
\* the commands above it.
THEOREM Invariance == Spec => []Inv
<1>1. Inv /\ [Next]_vars => Inv'
  BY StepInv
<1> QED BY InitInv, <1>1, PTL DEF Spec

\* The descriptors the shell keeps for itself, its backups and its handle on
\* the terminal, are open, close on exec, apart from each other and from every
\* descriptor a frame restores (run_with_command_redirections).
Private ==
    /\ \A x \in AllBackups \cup {terminal} : x \in DOMAIN table /\ table[x].cloexec
    /\ table[terminal].file = <<"terminal", 3>>
    /\ \A i \in DOMAIN frames : terminal \notin Preserved(frames[i]) \cup Backups(frames[i])
    /\ \A i, j \in DOMAIN frames : i # j => Backups(frames[i]) \cap Backups(frames[j]) = {}

\* The shell's own descriptors stay private, whatever commands redirect.
THEOREM PrivateTheorem == Spec => []Private
<1>1. Inv => Private
  <2> SUFFICES ASSUME Inv PROVE Private
    OBVIOUS
  <2>1. DOMAIN frames = 1 .. Len(frames)
    BY DEF Inv, Typed
  <2> QED BY <2>1 DEF Inv, Kept, Private, AllBackups
<1> QED BY Invariance, <1>1, PTL

\* A command with redirections gives back what it took, on every way out of it
\* but that of a bare exec.
THEOREM DescriptorsComeBackTheorem == Spec => DescriptorsComeBack
<1>1. Inv /\ [Next]_vars =>
        [Len(frames') < Len(frames) /\ Top.kind # "exec" =>
            IF Top.kind = "nesting" /\ Top.running
            THEN LET back == Preserved(Top)
                 IN  Drop(table', FD \ back) = Drop(Top.entry, FD \ back)
            ELSE table' = Top.entry]_vars
  BY StepInv DEF ComesBack, Resting
<1> QED BY Invariance, <1>1, PTL DEF Spec, DescriptorsComeBack

-----------------------------------------------------------------------------
(* What a redirection makes of a table *)

\* Where a redirection puts a file: on its targets, without the flag, and it is its own file, the
\* here document or a copy.  Only a here document that finds standard input closed keeps the flag
\* of the pipe it was written to.
Made(t, u, op, x) ==
    /\ x \in Targets(op)
    /\ (op.type = "here" => Stdin \in DOMAIN t) => ~u[x].cloexec
    /\ \/ u[x].file \in {op.file, Here}
       \/ op.type = "duplicate" /\ op.from \in DOMAIN t /\ u[x].file = t[op.from].file

LEMMA OpenedFile ==
    ASSUME NEW t \in Tables, NEW target \in FD, NEW file \in Files
    PROVE  LET r == RedirectFd(t, file, target)
           IN  /\ r.table \in Tables
               /\ ~r.ok => r.table = t
               /\ r.ok => target \in DOMAIN r.table /\ r.table[target] = [file |-> file, cloexec |-> FALSE]
               /\ \A x : x # target => SameAt(r.table, t, x)
<1> DEFINE opened == Lowest(Free(t, 0))
           p == Put(t, opened, file, FALSE)
<1>1. CASE file \in Unopenable \/ Free(t, 0) = {}
  BY <1>1 DEF RedirectFd, Failed, SameAt
<1>2. CASE ~(file \in Unopenable \/ Free(t, 0) = {})
  <2>1. opened \in FD \ DOMAIN t
    BY <1>2, LowestFree
  <2> HIDE DEF opened
  <2>2. Transfer(p, opened, target) \in Tables /\ \A x : x # target => SameAt(Transfer(p, opened, target), t, x)
    BY <2>1, TransferTable, FALSE \in BOOLEAN
  <2>3. target \in DOMAIN Transfer(p, opened, target) /\ Transfer(p, opened, target)[target] = [file |-> file, cloexec |-> FALSE]
    BY <2>1 DEF Transfer, Drop, Dup2, Put
  <2>4. RedirectFd(t, file, target) = Done(Transfer(p, opened, target))
    BY <1>2 DEF RedirectFd, opened
  <2> DEFINE w == Transfer(p, opened, target)
             r == RedirectFd(t, file, target)
  <2>5. r.ok /\ r.table = w
    BY <2>4 DEF Done
  <2> HIDE DEF w, r
  <2>6. w \in Tables /\ (\A x : x # target => SameAt(w, t, x)) /\ target \in DOMAIN w
        /\ w[target] = [file |-> file, cloexec |-> FALSE]
    BY <2>2, <2>3 DEF w
  <2> QED BY <2>5, <2>6 DEF r
<1> QED BY <1>1, <1>2

LEMMA ApplyMakes ==
    ASSUME NEW t \in Tables, NEW op \in Redirection
    PROVE  LET u == Apply(t, op).table
           IN  /\ \A x \in DOMAIN u : (x \in DOMAIN t /\ u[x] = t[x]) \/ Made(t, u, op, x)
               /\ \A x \in DOMAIN t : x \in DOMAIN u \/ (op.type = "close" /\ x = op.fd)
               /\ Apply(t, op).ok \in BOOLEAN
<1> DEFINE u == Apply(t, op).table
           Wanted == /\ \A x \in DOMAIN u : (x \in DOMAIN t /\ u[x] = t[x]) \/ Made(t, u, op, x)
                     /\ \A x \in DOMAIN t : x \in DOMAIN u \/ (op.type = "close" /\ x = op.fd)
                     /\ Apply(t, op).ok \in BOOLEAN
<1>0. /\ op.type \in {"file", "duplicate", "close", "both", "here"}
      /\ op.fd \in FD /\ op.from \in FD \cup {NoFd} /\ op.file \in Files
  BY DEF Redirection
<1>1. Stdin \in FD /\ Stdout \in FD /\ Stderr \in FD /\ Stdout # Stderr
  BY LimitAssumption DEF FD, Stdin, Stdout, Stderr
<1>2. ASSUME NEW target \in FD PROVE RedirectFd(t, op.file, target).ok \in BOOLEAN
  BY DEF RedirectFd, Done, Failed
<1>3. ASSUME op.type = "file" PROVE Wanted
  <2> DEFINE r == RedirectFd(t, op.file, op.fd)
  <2>1. u = r.table /\ Apply(t, op).ok = r.ok
    BY <1>3 DEF Apply
  <2>2. /\ ~r.ok => r.table = t
        /\ r.ok => op.fd \in DOMAIN r.table /\ r.table[op.fd] = [file |-> op.file, cloexec |-> FALSE]
        /\ \A x : x # op.fd => SameAt(r.table, t, x)
    BY <1>0, OpenedFile
  <2>3. r.ok \in BOOLEAN
    BY <1>0, <1>2
  <2> HIDE DEF r, u
  <2> QED BY <1>3, <2>1, <2>2, <2>3 DEF Made, Targets, SameAt
<1>4. ASSUME op.type = "duplicate" PROVE Wanted
  <2>1. CASE op.from \in DOMAIN t /\ op.fd \in FD
    <3>1. u = Dup2(t, op.from, op.fd) /\ Apply(t, op).ok
      BY <1>4, <2>1 DEF Apply, SafeDup2, Done
    <3> HIDE DEF u
    <3> QED BY <1>4, <2>1, <3>1 DEF Made, Targets, Dup2, Put
  <2>2. CASE ~(op.from \in DOMAIN t /\ op.fd \in FD)
    BY <1>4, <2>2 DEF Apply, SafeDup2, Failed
  <2> QED BY <2>1, <2>2
<1>5. ASSUME op.type = "close" PROVE Wanted
  BY <1>5 DEF Apply, Done, Drop
<1>6. ASSUME op.type = "here" PROVE Wanted
  <2>1. CASE Cardinality(Free(t, 0)) < 2
    BY <1>6, <2>1 DEF Apply, SetupHereDocument, Failed
  <2>2. CASE ~(Cardinality(Free(t, 0)) < 2)
    <3> DEFINE opened == Lowest(Free(t, 0))
    <3>1. Free(t, 0) # {}
      BY <2>2, FS_EmptySet
    <3>2. opened \in FD \ DOMAIN t
      BY <3>1, LowestFree
    <3>3. u = Transfer(Put(t, opened, Here, TRUE), opened, Stdin) /\ Apply(t, op).ok
      BY <1>6, <2>2 DEF Apply, SetupHereDocument, Done
    <3> HIDE DEF opened, u
    <3>4. \A x \in DOMAIN u : (x \in DOMAIN t /\ u[x] = t[x]) \/ (x = Stdin /\ u[x].file = Here)
      BY <3>2, <3>3 DEF Transfer, Drop, Dup2, Put
    <3>5. Stdin \in DOMAIN t => ~u[Stdin].cloexec
      BY <3>2, <3>3 DEF Transfer, Drop, Dup2, Put
    <3>6. DOMAIN t \subseteq DOMAIN u
      BY <3>2, <3>3 DEF Transfer, Drop, Dup2, Put
    <3> QED BY <1>6, <3>3, <3>4, <3>5, <3>6 DEF Made, Targets
  <2> QED BY <2>1, <2>2
<1>7. ASSUME op.type = "both" PROVE Wanted
  <2> DEFINE r == RedirectFd(t, op.file, Stdout)
  <2>1. /\ r.table \in Tables
        /\ ~r.ok => r.table = t
        /\ r.ok => Stdout \in DOMAIN r.table /\ r.table[Stdout] = [file |-> op.file, cloexec |-> FALSE]
        /\ \A x : x # Stdout => SameAt(r.table, t, x)
    BY <1>0, <1>1, OpenedFile
  <2>2. r.ok \in BOOLEAN
    BY <1>1, <1>2
  <2>3. r.ok => u = Dup2(r.table, Stdout, Stderr) /\ Apply(t, op).ok
    BY <1>1, <1>7, <2>1 DEF Apply, SafeDup2, Done
  <2>4. ~r.ok => u = t /\ ~Apply(t, op).ok /\ Apply(t, op).ok = r.ok
    BY <1>7, <2>1 DEF Apply
  <2>5. Targets(op) = {Stdout, Stderr}
    BY <1>7 DEF Targets
  <2> HIDE DEF r, u
  <2>6. ASSUME r.ok PROVE Wanted
    <3>1. u = Put(r.table, Stderr, op.file, FALSE)
      <4>1. r.table[Stdout].file = op.file
        BY <2>1, <2>6
      <4>2. u = Dup2(r.table, Stdout, Stderr) /\ Stdout # Stderr
        BY <1>1, <2>3, <2>6
      <4> QED BY <4>1, <4>2, Zenon DEF Dup2
    <3>2. u[Stderr] = [file |-> op.file, cloexec |-> FALSE] /\ DOMAIN u = DOMAIN r.table \cup {Stderr}
          /\ \A x \in DOMAIN r.table : x # Stderr => u[x] = r.table[x]
      BY <3>1 DEF Put
    <3>3. ASSUME NEW x \in DOMAIN u PROVE (x \in DOMAIN t /\ u[x] = t[x]) \/ Made(t, u, op, x)
      <4>1. CASE x = Stderr
        BY <1>7, <2>5, <3>2, <4>1 DEF Made
      <4>2. CASE x = Stdout
        BY <1>1, <1>7, <2>1, <2>5, <2>6, <3>2, <4>2 DEF Made
      <4>3. CASE x # Stdout /\ x # Stderr
        BY <2>1, <3>2, <4>3 DEF SameAt
      <4> QED BY <4>1, <4>2, <4>3
    <3> QED BY <2>1, <2>3, <2>6, <3>2, <3>3 DEF SameAt
  <2> QED BY <1>7, <2>2, <2>4, <2>6
<1> QED BY <1>0, <1>3, <1>4, <1>5, <1>6, <1>7

-----------------------------------------------------------------------------
(* Nothing leaks *)

HereDocs == \E op \in Anywhere \cup Alone : op.type = "here"
ClosesStdin == \E op \in Anywhere \cup Alone : op.type = "close" /\ op.fd = Stdin

\* The ends of pipes the shell itself has open.
OpenEnds == IF pipeline.launched THEN {} ELSE Ends(pipeline.pipes)

\* What the shell keeps for itself.
Owned(fs, m) == (UNION {Backups(fs[i]) : i \in DOMAIN fs}) \cup {m}

\* Only the shell's own descriptors close on exec, now and when a saved one is put back; nothing
\* else is open but what scripts name and the given pipes.  Standard input stays open where here
\* documents are read: their pipe takes the lowest number.
Tidy(t, fs, m, ends) ==
    /\ DOMAIN t \subseteq ScriptFds \cup Owned(fs, m) \cup ends
    /\ \A x \in DOMAIN t : t[x].cloexec => x \in Owned(fs, m)
    /\ \A i \in DOMAIN fs : \A x \in DOMAIN fs[i].saved : ~fs[i].saved[x].cloexec
    /\ HereDocs =>
        /\ Stdin \in DOMAIN t /\ Stdin \notin Owned(fs, m) \cup ends
        /\ \A i \in DOMAIN fs : Stdin \in DOMAIN fs[i].saved => fs[i].saved[Stdin].backup # NoFd

AllTidy == Tidy(table, frames, terminal, OpenEnds)

-----------------------------------------------------------------------------
LEMMA ScriptsName ==
    ASSUME NEW ops \in OpLists(Anywhere \cup Alone)
    PROVE  Redirected(ops) \subseteq ScriptFds
<1>1. \A i \in DOMAIN ops : ops[i] \in Anywhere \cup Alone
  BY OpListsAre
<1> QED BY <1>1 DEF Redirected, ScriptFds

LEMMA TopNames ==
    ASSUME Inv, frames # <<>>
    PROVE  /\ Preserved(Top) \subseteq ScriptFds /\ DOMAIN Top.saved \subseteq ScriptFds
           /\ \A i \in DOMAIN Top.ops : Top.ops[i] \in Anywhere \cup Alone /\ Top.ops[i] \in Redirection
                                        /\ Targets(Top.ops[i]) \subseteq ScriptFds
           /\ DOMAIN Top.ops = 1 .. Len(Top.ops)
<1>1. /\ Top.ops \in OpLists(Anywhere \cup Alone) /\ Len(frames) \in 1 .. Len(frames) /\ Top = frames[Len(frames)]
  BY TopIs DEF FrameType
<1>2. {Stdin, Stdout, Stderr} \subseteq ScriptFds
  <2>1. {Stdin, Stdout, Stderr} \subseteq 0 .. Stderr
    BY DEF Stdin, Stdout, Stderr
  <2> QED BY <2>1 DEF ScriptFds
<1>3. Preserved(Top) \subseteq ScriptFds
  BY <1>1, <1>2, ScriptsName DEF Preserved
<1>4. DOMAIN Top.saved \subseteq Preserved(Top)
  BY <1>1 DEF Inv, Stacked
<1>5. \A i \in DOMAIN Top.ops : Top.ops[i] \in Anywhere \cup Alone /\ Targets(Top.ops[i]) \subseteq ScriptFds
  BY <1>1, OpListsAre DEF ScriptFds
<1>6. DOMAIN Top.ops = 1 .. Len(Top.ops)
  BY <1>1, OpListsAre
<1> QED BY <1>3, <1>4, <1>5, <1>6, RedirectionsAssumption

\* No frame preserves what the shell keeps for itself.
LEMMA OutOfReach ==
    ASSUME Inv, frames # <<>>
    PROVE  Preserved(Top) \cap Owned(frames, terminal) = {}
<1>1. /\ Len(frames) \in Nat \ {0} /\ Len(frames) \in 1 .. Len(frames)
      /\ Top = frames[Len(frames)] /\ Top \in FrameType
      /\ Preserved(Top) \cap Backups(Top) = {}
  BY TopIs
<1>2. terminal \notin Preserved(Top)
  BY <1>1 DEF Inv, Kept
<1>3. ASSUME NEW i \in DOMAIN frames, NEW b \in Backups(frames[i]) PROVE b \notin Preserved(Top)
  <2>0. i \in 1 .. Len(frames) /\ frames[i] \in FrameType
    BY DEF Inv, Typed
  <2>1. CASE i = Len(frames)
    BY <1>1, <1>3, <2>1
  <2>2. CASE i # Len(frames)
    <3>1. Len(frames) > 1
      BY <1>1, <2>0, <2>2
    <3>2. Top.ops \in OpLists(Anywhere) /\ Top.ops \in OpLists(Anywhere \cup Alone)
      BY <1>1, <3>1 DEF Inv, Stacked, FrameType
    <3>3. Preserved(Top) \subseteq 0 .. LastDigit
      BY <3>2, CommandFds
    <3>4. b >= LeastBackup(frames[i].ops) /\ b \in FD
      BY <1>3, <2>0, BackupsAre DEF Inv, Kept
    <3>5. LeastBackup(frames[i].ops) > LastDigit /\ LeastBackup(frames[i].ops) \in Nat
      BY <2>0, CommandFds DEF FrameType
    <3> QED BY <3>3, <3>4, <3>5, LimitAssumption DEF LastDigit, FD
  <2> QED BY <2>1, <2>2
<1> QED BY <1>2, <1>3 DEF Owned

\* A redirection leaves things tidy, whether it succeeds or not.
LEMMA ApplyTidy ==
    ASSUME Inv, frames # <<>>, ~(HereDocs /\ ClosesStdin),
           NEW i \in DOMAIN Top.ops, NEW left, Tidy(table, frames, terminal, left)
    PROVE  Tidy(Apply(table, Top.ops[i]).table, frames, terminal, left)
<1> DEFINE op == Top.ops[i]
           u == Apply(table, op).table
<1>1. op \in Anywhere \cup Alone /\ op \in Redirection /\ Targets(op) \subseteq ScriptFds /\ table \in Tables
  BY TopNames DEF Inv, Typed
<1> HIDE DEF op
<1>2. /\ \A x \in DOMAIN u : (x \in DOMAIN table /\ u[x] = table[x]) \/ Made(table, u, op, x)
      /\ \A x \in DOMAIN table : x \in DOMAIN u \/ (op.type = "close" /\ x = op.fd)
  BY <1>1, ApplyMakes
<1> HIDE DEF u
<1>3. op.type = "here" => Stdin \in DOMAIN table
  BY <1>1 DEF Tidy, HereDocs
<1>4. \A x \in DOMAIN u : (x \in DOMAIN table /\ u[x] = table[x]) \/ (x \in ScriptFds /\ ~u[x].cloexec)
  BY <1>1, <1>2, <1>3 DEF Made
<1>5. HereDocs => Stdin \in DOMAIN u
  BY <1>1, <1>2 DEF Tidy, ClosesStdin
<1>6. Tidy(u, frames, terminal, left)
  BY <1>4, <1>5 DEF Tidy
<1> QED BY <1>6 DEF u, op

LEMMA OwnedBelow ==
    ASSUME Inv, frames # <<>>
    PROVE  /\ \A x : x \in Owned(frames, terminal) /\ x \notin Backups(Top) => x \in Owned(Below, terminal)
           /\ Owned(Below, terminal) \subseteq Owned(frames, terminal)
           /\ \A i \in DOMAIN Below : i \in DOMAIN frames /\ Below[i] = frames[i]
           /\ Len(frames) \in DOMAIN frames /\ Top = frames[Len(frames)]
           /\ Backups(Top) \subseteq Owned(frames, terminal)
<1>1. /\ Len(frames) \in Nat \ {0} /\ Len(frames) \in 1 .. Len(frames) /\ Top = frames[Len(frames)]
      /\ DOMAIN frames = 1 .. Len(frames)
  BY TopIs DEF Inv, Typed
<1>2. /\ Below \in Seq(FrameType) /\ Len(Below) = Len(frames) - 1
      /\ \A i \in 1 .. Len(frames) - 1 : Below[i] = frames[i]
  BY Unstack DEF Below, Inv, Typed
<1>3. DOMAIN Below = 1 .. Len(frames) - 1
  BY <1>1, <1>2
<1>4. \A i \in DOMAIN Below : i \in DOMAIN frames /\ Below[i] = frames[i]
  BY <1>1, <1>2, <1>3
<1>5. \A i \in DOMAIN frames : i \in DOMAIN Below \/ i = Len(frames)
  BY <1>1, <1>3
<1> QED BY <1>1, <1>4, <1>5 DEF Owned

\* Restoring leaves things tidy below.
LEMMA RestoreTidy ==
    ASSUME Inv, frames # <<>>, NEW t, NEW left, Tidy(t, frames, terminal, left)
    PROVE  Tidy(Restored(t, Top), Below, terminal, left)
<1> DEFINE back == PutBack(t, Top.saved)
           kept == IF Top.kind = "exec" THEN t ELSE back
<1>1. /\ \A x : x \in Owned(frames, terminal) /\ x \notin Backups(Top) => x \in Owned(Below, terminal)
      /\ Owned(Below, terminal) \subseteq Owned(frames, terminal)
      /\ \A i \in DOMAIN Below : i \in DOMAIN frames /\ Below[i] = frames[i]
      /\ Len(frames) \in DOMAIN frames /\ Top = frames[Len(frames)]
      /\ Backups(Top) \subseteq Owned(frames, terminal)
  BY OwnedBelow
<1>2. DOMAIN Top.saved \subseteq ScriptFds
  BY TopNames
<1>3. DOMAIN back \subseteq DOMAIN t \cup DOMAIN Top.saved
  BY DEF PutBack
<1>4. \A x \in DOMAIN back : \/ (x \in DOMAIN Top.saved /\ back[x].cloexec = Top.saved[x].cloexec)
                             \/ (x \in DOMAIN t /\ back[x] = t[x])
  BY DEF PutBack
<1>5. HereDocs => Stdin \in DOMAIN back
  <2>1. HereDocs => Stdin \in DOMAIN t /\ (Stdin \in DOMAIN Top.saved => Top.saved[Stdin].backup # NoFd)
    BY <1>1 DEF Tidy
  <2> QED BY <2>1 DEF PutBack
<1>6. \A x \in DOMAIN Top.saved : ~Top.saved[x].cloexec
  BY <1>1 DEF Tidy
<1> HIDE DEF back
<1>7. /\ DOMAIN kept \subseteq DOMAIN t \cup ScriptFds
      /\ \A x \in DOMAIN kept : kept[x].cloexec => x \in DOMAIN t /\ t[x].cloexec
      /\ HereDocs => Stdin \in DOMAIN kept
  <2>1. HereDocs => Stdin \in DOMAIN t
    BY DEF Tidy
  <2>2. CASE Top.kind = "exec"
    BY <2>1, <2>2
  <2>3. CASE Top.kind # "exec"
    <3>1. kept = back
      BY <2>3
    <3> HIDE DEF kept
    <3> QED BY <1>2, <1>3, <1>4, <1>5, <1>6, <3>1
  <2> QED BY <2>2, <2>3
<1> HIDE DEF kept
<1>8. Tidy(Drop(kept, Backups(Top)), Below, terminal, left)
  <2> DEFINE u == Drop(kept, Backups(Top))
  <2>1. DOMAIN u = DOMAIN kept \ Backups(Top) /\ \A x \in DOMAIN u : u[x] = kept[x]
    BY DEF Drop
  <2> HIDE DEF u
  <2>2. DOMAIN u \subseteq ScriptFds \cup Owned(Below, terminal) \cup left
    BY <1>1, <1>7, <2>1 DEF Tidy
  <2>3. \A x \in DOMAIN u : u[x].cloexec => x \in Owned(Below, terminal)
    BY <1>1, <1>7, <2>1 DEF Tidy
  <2>4. HereDocs => Stdin \in DOMAIN u /\ Stdin \notin Owned(Below, terminal) \cup left
    BY <1>1, <1>7, <2>1 DEF Tidy
  <2>5. \A j \in DOMAIN Below : /\ \A x \in DOMAIN Below[j].saved : ~Below[j].saved[x].cloexec
                                /\ HereDocs /\ Stdin \in DOMAIN Below[j].saved => Below[j].saved[Stdin].backup # NoFd
    BY <1>1 DEF Tidy
  <2>6. Tidy(u, Below, terminal, left)
    BY <2>2, <2>3, <2>4, <2>5 DEF Tidy
  <2> QED BY <2>6 DEF u
<1> QED BY <1>8 DEF Restored, kept, back

LEMMA GiveUpTidy ==
    ASSUME Inv, frames # <<>>, NEW left, Tidy(table, frames, terminal, left)
    PROVE  Tidy(Drop(table, Backups(Top)), Below, terminal, left)
<1> DEFINE u == Drop(table, Backups(Top))
<1>1. /\ \A x : x \in Owned(frames, terminal) /\ x \notin Backups(Top) => x \in Owned(Below, terminal)
      /\ Owned(Below, terminal) \subseteq Owned(frames, terminal)
      /\ \A i \in DOMAIN Below : i \in DOMAIN frames /\ Below[i] = frames[i]
      /\ Backups(Top) \subseteq Owned(frames, terminal)
  BY OwnedBelow
<1>2. DOMAIN u = DOMAIN table \ Backups(Top) /\ \A x \in DOMAIN u : u[x] = table[x]
  BY DEF Drop
<1> HIDE DEF u
<1>3. \A j \in DOMAIN Below : /\ \A x \in DOMAIN Below[j].saved : ~Below[j].saved[x].cloexec
                              /\ HereDocs /\ Stdin \in DOMAIN Below[j].saved => Below[j].saved[Stdin].backup # NoFd
  BY <1>1 DEF Tidy
<1>4. Tidy(u, Below, terminal, left)
  BY <1>1, <1>2, <1>3 DEF Tidy
<1> QED BY <1>4 DEF u

\* A frame that is entered has saved nothing yet.
LEMMA EnterTidy ==
    ASSUME Inv, NEW t, NEW m, NEW f, DOMAIN f.saved = {}, NEW left, Tidy(t, frames, m, left)
    PROVE  Tidy(t, Append(frames, f), m, left)
<1> DEFINE gs == Append(frames, f)
<1>1. /\ frames \in Seq(FrameType) /\ Len(frames) \in Nat /\ DOMAIN frames = 1 .. Len(frames)
  BY DEF Inv, Typed
<1>2. /\ DOMAIN gs = 1 .. Len(frames) + 1
      /\ \A i \in DOMAIN frames : gs[i] = frames[i]
      /\ gs[Len(frames) + 1] = f
  BY <1>1
<1>3. \A i \in DOMAIN gs : (i \in DOMAIN frames /\ gs[i] = frames[i]) \/ gs[i] = f
  BY <1>1, <1>2
<1>4. DOMAIN frames \subseteq DOMAIN gs
  BY <1>1, <1>2
<1> HIDE DEF gs
<1>5. Backups(f) = {}
  BY DEF Backups
<1>6. Owned(gs, m) = Owned(frames, m)
  BY <1>2, <1>3, <1>4, <1>5 DEF Owned
<1>7. Tidy(t, gs, m, left)
  BY <1>3, <1>6 DEF Tidy
<1> QED BY <1>7 DEF gs

LEMMA BeginTidy ==
    ASSUME Inv, Begin, NEW left, Tidy(table, frames, terminal, left)
    PROVE  Tidy(table', frames', terminal', left)
<1>1. PICK command \in Commands :
        IF terminal \in Preserved(command)
        THEN MoveTerminal(command)
        ELSE Enter(command, table) /\ UNCHANGED terminal
  BY DEF Begin
<1> DEFINE f(t) == [kind |-> command.kind, ops |-> command.ops, applied |-> 0,
                    toSave |-> Preserved(command), saved |-> [x \in {} |-> NoFd], entry |-> t, running |-> FALSE]
<1>2. \A t : DOMAIN f(t).saved = {}
  OBVIOUS
<1>3. \A t : Enter(command, t) => table' = t /\ frames' = Append(frames, f(t))
  BY DEF Enter
<1> HIDE DEF f
<1>4. CASE terminal \notin Preserved(command)
  BY <1>1, <1>2, <1>3, <1>4, EnterTidy
<1>5. CASE terminal \in Preserved(command)
  <2> DEFINE free == Free(table, LeastBackup(command.ops))
             m == Lowest(free)
             d == Drop(table, {terminal})
             t == Put(d, m, table[terminal].file, TRUE)
  <2>1. free # {} /\ terminal' = m /\ Enter(command, t)
    BY <1>1, <1>5 DEF MoveTerminal
  <2>2. m \in FD \ DOMAIN table /\ m >= LeastBackup(command.ops)
    BY <2>1, LowestFree
  <2> HIDE DEF m
  <2>3. LeastBackup(command.ops) \in Nat /\ LeastBackup(command.ops) > LastDigit
    <3>1. command.ops \in OpLists(Anywhere \cup Alone)
      BY CommandsAre
    <3> QED BY <3>1, CommandFds
  <2>4. m # Stdin
    BY <2>2, <2>3, LimitAssumption DEF Stdin, LastDigit, FD
  <2>5. /\ DOMAIN t = (DOMAIN table \ {terminal}) \cup {m}
        /\ \A x \in DOMAIN t : x # m => t[x] = table[x]
    BY DEF Put, Drop
  <2> HIDE DEF t
  <2>6. \A x : x \in Owned(frames, terminal) => x \in Owned(frames, m) \/ x = terminal
    BY DEF Owned
  <2>7. m \in Owned(frames, m) /\ \A x : x \in Owned(frames, m) => x \in Owned(frames, terminal) \/ x = m
    BY DEF Owned
  <2>8. terminal \in Owned(frames, terminal) /\ terminal \notin DOMAIN t
    BY <2>2, <2>5 DEF Owned, Inv, Kept
  <2>9. Tidy(t, frames, m, left)
    BY <2>4, <2>5, <2>6, <2>7, <2>8 DEF Tidy
  <2> QED BY <1>2, <1>3, <2>1, <2>9, EnterTidy
<1> QED BY <1>4, <1>5

LEMMA SaveTidy ==
    ASSUME Inv, Save, NEW left, Tidy(table, frames, terminal, left)
    PROVE  Tidy(table', frames', terminal', left)
<1> DEFINE fd == Lowest(Top.toSave)
           free == Free(table, LeastBackup(Top.ops))
           n == Len(frames)
<1>1. /\ frames # <<>> /\ Top.toSave # {} /\ terminal' = terminal
      /\ \/ fd \notin DOMAIN table /\ frames' = WithSaved(fd, NoFd, FALSE) /\ table' = table
         \/ /\ fd \in DOMAIN table /\ free # {}
            /\ frames' = WithSaved(fd, Lowest(free), table[fd].cloexec)
            /\ table' = Put(table, Lowest(free), table[fd].file, TRUE)
         \/ GiveUp
  BY DEF Save
<1>2. fd \in Preserved(Top) /\ fd \notin DOMAIN Top.saved
  BY <1>1, FdToSave
<1>3. fd \notin Owned(frames, terminal)
  BY <1>1, <1>2, OutOfReach
<1> HIDE DEF fd
<1>4. CASE GiveUp
  BY <1>1, <1>4, GiveUpTidy DEF GiveUp
<1>5. ASSUME NEW backup, NEW cloexec, NEW t, frames' = WithSaved(fd, backup, cloexec), table' = t, ~cloexec,
             \A x \in DOMAIN t : (x \in DOMAIN table /\ t[x] = table[x]) \/ (x = backup /\ backup # NoFd),
             DOMAIN table \subseteq DOMAIN t, backup # Stdin,
             HereDocs => backup # NoFd \/ fd # Stdin
      PROVE  Tidy(table', frames', terminal', left)
  <2> DEFINE s == [x \in DOMAIN Top.saved \cup {fd} |->
                     IF x = fd THEN [backup |-> backup, cloexec |-> cloexec] ELSE Top.saved[x]]
             g == [Top EXCEPT !.toSave = Top.toSave \ {fd}, !.saved = s]
             gs == [frames EXCEPT ![n] = g]
  <2>1. frames' = gs
    BY <1>5 DEF WithSaved
  <2>2. n \in DOMAIN frames /\ Top = frames[n] /\ Top \in FrameType /\ frames \in Seq(FrameType)
    BY <1>1, TopIs DEF Inv, Typed
  <2>3. g.saved = s
    BY <2>2 DEF FrameType
  <2>4. DOMAIN s = DOMAIN Top.saved \cup {fd} /\ s[fd].backup = backup /\ s[fd].cloexec = cloexec
        /\ \A x \in DOMAIN Top.saved : x # fd /\ s[x] = Top.saved[x]
    BY <1>2
  <2> HIDE DEF s
  <2>5. DOMAIN gs = DOMAIN frames /\ gs[n] = g /\ \A i \in DOMAIN frames : i # n => gs[i] = frames[i]
    BY <2>2
  <2> HIDE DEF gs, g, n
  <2>6. Backups(g) = Backups(Top) \cup ({backup} \ {NoFd})
    BY <2>3, <2>4 DEF Backups
  <2>7. Owned(gs, terminal) = Owned(frames, terminal) \cup ({backup} \ {NoFd})
    BY <2>2, <2>5, <2>6 DEF Owned
  <2>8. \A x \in DOMAIN g.saved : ~g.saved[x].cloexec
    BY <1>5, <2>2, <2>3, <2>4 DEF Tidy
  <2>9. HereDocs /\ Stdin \in DOMAIN g.saved => g.saved[Stdin].backup # NoFd
    BY <1>5, <2>2, <2>3, <2>4 DEF Tidy
  <2>10. \A i \in DOMAIN gs : /\ \A x \in DOMAIN gs[i].saved : ~gs[i].saved[x].cloexec
                              /\ HereDocs /\ Stdin \in DOMAIN gs[i].saved => gs[i].saved[Stdin].backup # NoFd
    BY <2>5, <2>8, <2>9 DEF Tidy
  <2>11. /\ DOMAIN t \subseteq ScriptFds \cup Owned(gs, terminal) \cup left
         /\ \A x \in DOMAIN t : t[x].cloexec => x \in Owned(gs, terminal)
         /\ HereDocs => Stdin \in DOMAIN t /\ Stdin \notin Owned(gs, terminal) \cup left
    BY <1>5, <2>7 DEF Tidy
  <2>12. Tidy(t, gs, terminal, left)
    BY <2>10, <2>11 DEF Tidy
  <2> QED BY <1>1, <1>5, <2>1, <2>12
<1>6. CASE fd \notin DOMAIN table /\ frames' = WithSaved(fd, NoFd, FALSE) /\ table' = table
  <2>1. HereDocs => fd # Stdin
    BY <1>6 DEF Tidy
  <2>2. NoFd # Stdin
    BY DEF NoFd, Stdin
  <2> QED BY <1>5, <1>6, <2>1, <2>2
<1>7. CASE /\ fd \in DOMAIN table /\ free # {}
           /\ frames' = WithSaved(fd, Lowest(free), table[fd].cloexec)
           /\ table' = Put(table, Lowest(free), table[fd].file, TRUE)
  <2> DEFINE b == Lowest(free)
  <2>1. b \in FD \ DOMAIN table /\ b >= LeastBackup(Top.ops)
    BY <1>7, LowestFree
  <2>2. LeastBackup(Top.ops) \in Nat /\ LeastBackup(Top.ops) > LastDigit
    BY <1>1, TopIs, CommandFds DEF FrameType
  <2> HIDE DEF b
  <2>3. b # Stdin /\ b # NoFd
    BY <2>1, <2>2, LimitAssumption DEF Stdin, NoFd, LastDigit, FD
  <2>4. ~table[fd].cloexec
    BY <1>3, <1>7 DEF Tidy
  <2> DEFINE t == Put(table, b, table[fd].file, TRUE)
  <2>5. /\ \A x \in DOMAIN t : (x \in DOMAIN table /\ t[x] = table[x]) \/ (x = b /\ b # NoFd)
        /\ DOMAIN table \subseteq DOMAIN t
    BY <2>1, <2>3 DEF Put
  <2>6. table' = t /\ frames' = WithSaved(fd, b, table[fd].cloexec)
    BY <1>7 DEF b
  <2> HIDE DEF t
  <2> QED BY <1>5, <2>3, <2>4, <2>5, <2>6
<1> QED BY <1>1, <1>4, <1>6, <1>7

\* Frames that differ in how far they have come.
LEMMA AdvanceTidy ==
    ASSUME Inv, frames # <<>>, NEW g, g.saved = Top.saved, NEW t, NEW left, Tidy(t, frames, terminal, left)
    PROVE  Tidy(t, [frames EXCEPT ![Len(frames)] = g], terminal, left)
<1> DEFINE n == Len(frames)
           gs == [frames EXCEPT ![n] = g]
<1>1. n \in DOMAIN frames /\ Top = frames[n] /\ frames \in Seq(FrameType)
  BY TopIs DEF Inv, Typed
<1>2. DOMAIN gs = DOMAIN frames /\ gs[n] = g /\ \A i \in DOMAIN frames : i # n => gs[i] = frames[i]
  BY <1>1
<1> HIDE DEF gs, n
<1>3. \A i \in DOMAIN frames : gs[i].saved = frames[i].saved /\ Backups(gs[i]) = Backups(frames[i])
  BY <1>1, <1>2 DEF Backups
<1>4. Owned(gs, terminal) = Owned(frames, terminal)
  BY <1>2, <1>3 DEF Owned
<1>5. Tidy(t, gs, terminal, left)
  BY <1>2, <1>3, <1>4 DEF Tidy
<1> QED BY <1>5 DEF gs, n

LEMMA ApplyNextTidy ==
    ASSUME Inv, ApplyNext, ~(HereDocs /\ ClosesStdin), NEW left, Tidy(table, frames, terminal, left)
    PROVE  Tidy(table', frames', terminal', left)
<1> DEFINE r == Apply(table, Top.ops[Top.applied + 1])
           g == [Top EXCEPT !.applied = @ + 1]
<1>1. /\ frames # <<>> /\ Top.applied < Len(Top.ops) /\ terminal' = terminal
      /\ IF r.ok
         THEN /\ table' = r.table
              /\ frames' = [frames EXCEPT ![Len(frames)].applied = @ + 1]
         ELSE Leave(r.table)
  BY DEF ApplyNext
<1>2. Top \in FrameType /\ Top = frames[Len(frames)] /\ Len(frames) \in 1 .. Len(frames)
  BY <1>1, TopIs
<1>3. Top.applied \in Nat /\ DOMAIN Top.ops = 1 .. Len(Top.ops) /\ Len(Top.ops) \in Nat
  BY <1>1, <1>2, TopNames, OpListsAre DEF FrameType
<1>4. Top.applied + 1 \in DOMAIN Top.ops
  BY <1>1, <1>3
<1>5. Tidy(r.table, frames, terminal, left)
  BY <1>1, <1>4, ApplyTidy
<1> HIDE DEF r
<1>6. CASE r.ok
  <2>1. g.saved = Top.saved
    BY <1>2 DEF FrameType
  <2>2. frames' = [frames EXCEPT ![Len(frames)] = g] /\ table' = r.table
    BY <1>1, <1>2, <1>6
  <2> HIDE DEF g
  <2> QED BY <1>1, <1>5, <2>1, <2>2, AdvanceTidy
<1>7. CASE ~r.ok
  BY <1>1, <1>5, <1>7, RestoreTidy DEF Leave
<1> QED BY <1>6, <1>7

LEMMA RunTidy ==
    ASSUME Inv, RunAction, NEW left, Tidy(table, frames, terminal, left)
    PROVE  Tidy(table', frames', terminal', left)
<1> DEFINE g == [Top EXCEPT !.running = TRUE]
<1>1. frames # <<>> /\ UNCHANGED <<table, terminal>> /\ frames' = [frames EXCEPT ![Len(frames)].running = TRUE]
  BY DEF RunAction
<1>2. Top \in FrameType /\ Top = frames[Len(frames)] /\ Len(frames) \in 1 .. Len(frames)
  BY <1>1, TopIs
<1>3. g.saved = Top.saved
  BY <1>2 DEF FrameType
<1>4. frames' = [frames EXCEPT ![Len(frames)] = g]
  BY <1>1, <1>2
<1> HIDE DEF g
<1>5. Tidy(table, [frames EXCEPT ![Len(frames)] = g], terminal, left)
  BY <1>1, <1>3, AdvanceTidy
<1> QED BY <1>1, <1>4, <1>5

\* A pipeline that has taken descriptors gives up before it runs: a pipe or a fork failed.
LaunchFails == ~pipeline.launched /\ Ends(pipeline.pipes) # {} /\ pipeline' = NoPipeline

LEMMA EndsThen ==
    ASSUME Inv
    PROVE  (pipeline = NoPipeline => OpenEnds = {}) /\ (Ready => OpenEnds = {}) /\ (frames # <<>> /\ ~Resting(Top) => OpenEnds = {})
<1>1. pipeline = NoPipeline => OpenEnds = {}
  BY NoPipelineIs DEF OpenEnds
<1>2. frames # <<>> /\ ~Resting(Top) => pipeline = NoPipeline
  BY DEF Inv, Piped
<1> QED BY <1>1, <1>2 DEF Ready

\* The ends of a new pipe, and nothing else, are new in the table.
MakesEnds(read, write) ==
    LET k == Len(pipeline.pipes) + 1
    IN  /\ read # write /\ {read, write} \subseteq FD \ DOMAIN table
        /\ DOMAIN table' = DOMAIN table \cup {read, write}
        /\ table'[read] = [file |-> <<"read", k>>, cloexec |-> FALSE]
        /\ table'[write] = [file |-> <<"write", k>>, cloexec |-> FALSE]
        /\ \A x \in DOMAIN table : table'[x] = table[x]
        /\ k \notin DOMAIN pipeline.pipes /\ DOMAIN pipeline'.pipes = DOMAIN pipeline.pipes \cup {k}
        /\ pipeline'.pipes[k] = [read |-> read, write |-> write]
        /\ \A j \in DOMAIN pipeline.pipes : pipeline'.pipes[j] = pipeline.pipes[j]
        /\ pipeline'.stages = pipeline.stages /\ pipeline'.members = pipeline.members
        /\ ~pipeline.launched /\ ~pipeline'.launched
        /\ OpenEnds' = OpenEnds \cup {read, write}

LEMMA PipeMade ==
    ASSUME Inv, MakePipe
    PROVE  \/ pipeline' = NoPipeline /\ table' = table
           \/ \E read, write : MakesEnds(read, write)
<1> DEFINE free == Free(table, 0)
           read == Lowest(free)
           write == Lowest(free \ {read})
           k == Len(pipeline.pipes) + 1
           made == [read |-> read, write |-> write]
           t == Put(Put(table, read, <<"read", k>>, FALSE), write, <<"write", k>>, FALSE)
<1>1. Launching /\ ~pipeline.launched
  BY DEF MakePipe, Launching
<1>2. PipelineType(pipeline) /\ pipeline.pipes \in Seq(PipeType) /\ OpenEnds = Ends(pipeline.pipes)
  BY <1>1, LaunchingIs DEF PipelineType, OpenEnds
<1>3. CASE Cardinality(free) < 2
  BY <1>3 DEF MakePipe
<1>4. CASE ~(Cardinality(free) < 2)
  <2>1. table' = t /\ pipeline' = [pipeline EXCEPT !.pipes = Append(@, made)]
    BY <1>4 DEF MakePipe
  <2>2. free # {} /\ free \ {read} # {}
    <3>1. free # {}
      BY <1>4, FS_EmptySet
    <3>2. Cardinality({read}) = 1
      BY FS_Singleton
    <3>3. free # {read}
      BY <1>4, <3>2
    <3> QED BY <3>1, <3>3
  <2>3. read \in FD \ DOMAIN table /\ write \in FD \ DOMAIN table /\ read # write
    <3>1. free \in SUBSET Nat /\ free \ {read} \in SUBSET Nat
      BY LimitAssumption DEF Free, FD
    <3>2. read \in free /\ write \in free \ {read}
      BY <2>2, <3>1, HasLowest
    <3> QED BY <3>2 DEF Free
  <2>4. Len(pipeline.pipes) \in Nat /\ DOMAIN pipeline.pipes = 1 .. Len(pipeline.pipes) /\ k \notin DOMAIN pipeline.pipes
    BY <1>2
  <2>5. made.read = read /\ made.write = write
    OBVIOUS
  <2> DEFINE r == read
             w == write
  <2>6. made = [read |-> r, write |-> w] /\ r = read /\ w = write
    OBVIOUS
  <2> HIDE DEF read, write, free, made, r, w
  <2>7. /\ DOMAIN t = DOMAIN table \cup {read, write}
        /\ t[read] = [file |-> <<"read", k>>, cloexec |-> FALSE]
        /\ t[write] = [file |-> <<"write", k>>, cloexec |-> FALSE]
        /\ \A x \in DOMAIN table : t[x] = table[x]
    BY <2>3 DEF Put
  <2> HIDE DEF t
  <2>8. /\ DOMAIN Append(pipeline.pipes, made) = DOMAIN pipeline.pipes \cup {k}
        /\ Append(pipeline.pipes, made)[k] = made
        /\ \A j \in DOMAIN pipeline.pipes : Append(pipeline.pipes, made)[j] = pipeline.pipes[j]
    BY <1>2, <2>4
  <2> DEFINE ps == Append(pipeline.pipes, made)
  <2> HIDE DEF ps
  <2>9. Ends(ps) = Ends(pipeline.pipes) \cup {read, write}
    <3> HIDE DEF k
    <3> QED BY <2>5, <2>8 DEF Ends, ps
  <2>10. /\ pipeline'.pipes = ps /\ pipeline'.stages = pipeline.stages
         /\ pipeline'.members = pipeline.members /\ pipeline'.launched = pipeline.launched
    BY <1>2, <2>1 DEF PipelineType, ps
  <2>11. OpenEnds' = OpenEnds \cup {read, write}
    BY <1>1, <1>2, <2>9, <2>10 DEF OpenEnds
  <2>12. MakesEnds(r, w)
    BY <1>1, <2>1, <2>3, <2>4, <2>6, <2>7, <2>8, <2>10, <2>11 DEF MakesEnds, ps
  <2> QED BY <2>12
<1> QED BY <1>3, <1>4

LEMMA MakePipeTidy ==
    ASSUME Inv, MakePipe, ~LaunchFails, AllTidy
    PROVE  AllTidy'
<1>1. Launching /\ UNCHANGED <<terminal, frames>> /\ ~pipeline.launched
  BY DEF MakePipe, Launching
<1>2. CASE pipeline' = NoPipeline /\ table' = table
  <2>1. OpenEnds = {} /\ OpenEnds' = {}
    BY <1>1, <1>2, NoPipelineIs DEF LaunchFails, OpenEnds
  <2> QED BY <1>1, <1>2, <2>1 DEF AllTidy
<1>3. ASSUME NEW read, NEW write, MakesEnds(read, write) PROVE AllTidy'
  <2>1. DOMAIN table' = DOMAIN table \cup {read, write}
        /\ \A x \in DOMAIN table' : table'[x].cloexec => x \in DOMAIN table /\ table'[x] = table[x]
    BY <1>3 DEF MakesEnds
  <2>2. HereDocs => Stdin \notin {read, write}
    BY <1>3 DEF MakesEnds, AllTidy, Tidy
  <2>3. OpenEnds' = OpenEnds \cup {read, write}
    BY <1>3 DEF MakesEnds
  <2>4. Tidy(table', frames, terminal, OpenEnds \cup {read, write})
    BY <2>1, <2>2 DEF Tidy, AllTidy
  <2> QED BY <1>1, <2>3, <2>4 DEF AllTidy
<1> QED BY <1>2, <1>3, PipeMade

LEMMA LaunchedTidy ==
    ASSUME Inv, Launched, AllTidy
    PROVE  AllTidy'
<1> DEFINE t == Drop(table, Ends(pipeline.pipes))
<1>1. /\ Launching /\ UNCHANGED <<terminal, frames>> /\ table' = t
      /\ pipeline' = [pipeline EXCEPT !.launched = TRUE]
  BY DEF Launched
<1>2. PipelineType(pipeline) /\ OpenEnds = Ends(pipeline.pipes)
  BY <1>1, LaunchingIs DEF OpenEnds, Launching
<1>3. OpenEnds' = {}
  BY <1>1, <1>2 DEF OpenEnds, PipelineType
<1>4. DOMAIN t = DOMAIN table \ OpenEnds /\ \A x \in DOMAIN t : t[x] = table[x]
  BY <1>2 DEF Drop
<1> HIDE DEF t
<1>5. Tidy(t, frames, terminal, {})
  BY <1>4 DEF Tidy, AllTidy
<1> QED BY <1>1, <1>3, <1>5 DEF AllTidy

\* An action runs when every redirection of its command is applied.
AllApplied == \A i \in 1 .. Len(frames) : frames[i].running => frames[i].applied = Len(frames[i].ops)

LEMMA StepApplied ==
    ASSUME Inv, AllApplied, [Next]_vars
    PROVE  AllApplied'
<1>1. frames \in Seq(FrameType) /\ Len(frames) \in Nat
  BY DEF Inv, Typed
<1>2. CASE frames' = frames
  BY <1>2 DEF AllApplied
<1>3. ASSUME frames # <<>>, NEW g, frames' = [frames EXCEPT ![Len(frames)] = g],
             g.running => g.applied = Len(g.ops)
      PROVE  AllApplied'
  BY <1>1, <1>3 DEF AllApplied
<1>4. ASSUME frames # <<>>, frames' = Below PROVE AllApplied'
  <2>1. /\ Len(Below) = Len(frames) - 1 /\ Len(frames) \in Nat \ {0}
        /\ \A i \in 1 .. Len(frames) - 1 : Below[i] = frames[i]
    BY <1>1, <1>4, Unstack DEF Below
  <2> HIDE DEF Below
  <2>2. \A i \in 1 .. Len(Below) : i \in 1 .. Len(frames) /\ Below[i] = frames[i]
    BY <2>1
  <2> QED BY <1>4, <2>2 DEF AllApplied
<1>5. CASE Begin
  <2>1. PICK f : frames' = Append(frames, f) /\ f.running = FALSE
    <3>1. \A command, t : Enter(command, t) => \E f : frames' = Append(frames, f) /\ f.running = FALSE
      BY DEF Enter
    <3> QED BY <1>5, <3>1 DEF Begin, MoveTerminal
  <2> QED BY <1>1, <2>1 DEF AllApplied
<1>6. ASSUME frames # <<>> PROVE Top \in FrameType /\ Top = frames[Len(frames)] /\ Len(frames) \in 1 .. Len(frames)
  BY <1>6, TopIs
<1>7. CASE Save
  <2>1. frames # <<>> /\ Top.toSave # {}
    BY <1>7 DEF Save
  <2>2. ~Top.running
    BY <1>6, <2>1 DEF Inv, Stacked
  <2>3. ASSUME NEW fd, NEW backup, NEW cloexec, frames' = WithSaved(fd, backup, cloexec) PROVE AllApplied'
    <3> DEFINE s == [x \in DOMAIN Top.saved \cup {fd} |->
                       IF x = fd THEN [backup |-> backup, cloexec |-> cloexec] ELSE Top.saved[x]]
               g == [Top EXCEPT !.toSave = Top.toSave \ {fd}, !.saved = s]
    <3>1. frames' = [frames EXCEPT ![Len(frames)] = g]
      BY <2>3 DEF WithSaved
    <3> HIDE DEF s
    <3>2. g.running = Top.running
      BY <1>6, <2>1 DEF FrameType
    <3> HIDE DEF g
    <3> QED BY <1>3, <2>1, <2>2, <3>1, <3>2
  <2>4. GiveUp => AllApplied'
    BY <1>4, <2>1 DEF GiveUp
  <2>5. GiveUp \/ \E fd, backup, cloexec : frames' = WithSaved(fd, backup, cloexec)
    BY <1>7 DEF Save
  <2> QED BY <2>3, <2>4, <2>5
<1>8. CASE ApplyNext
  <2> DEFINE g == [Top EXCEPT !.applied = @ + 1]
  <2>1. frames # <<>> /\ Top.applied < Len(Top.ops) /\ Top \in FrameType
    BY <1>6, <1>8 DEF ApplyNext
  <2>2. ~Top.running
    <3>1. Top.applied \in Nat
      BY <2>1 DEF FrameType
    <3> QED BY <1>6, <2>1, <3>1 DEF AllApplied
  <2>3. g.running = Top.running
    BY <2>1 DEF FrameType
  <2>4. frames' = [frames EXCEPT ![Len(frames)].applied = @ + 1] => frames' = [frames EXCEPT ![Len(frames)] = g]
    BY <1>6, <2>1
  <2>5. g.running => g.applied = Len(g.ops)
    BY <2>2, <2>3
  <2>6. frames' = [frames EXCEPT ![Len(frames)].applied = @ + 1] \/ frames' = Below
    BY <1>8 DEF ApplyNext, Leave
  <2> HIDE DEF g
  <2> QED BY <1>3, <1>4, <2>1, <2>4, <2>5, <2>6
<1>9. CASE RunAction
  <2> DEFINE g == [Top EXCEPT !.running = TRUE]
  <2>1. frames # <<>> /\ Top.applied = Len(Top.ops) /\ Top \in FrameType
        /\ frames' = [frames EXCEPT ![Len(frames)].running = TRUE]
    BY <1>6, <1>9 DEF RunAction
  <2>2. g.applied = Len(g.ops)
    BY <2>1 DEF FrameType
  <2>3. frames' = [frames EXCEPT ![Len(frames)] = g]
    BY <1>6, <2>1
  <2> HIDE DEF g
  <2> QED BY <1>3, <2>1, <2>2, <2>3
<1>10. CASE Return
  BY <1>4, <1>10 DEF Return, Leave
<1>11. CASE Launch \/ MakePipe \/ Fork \/ ForkFailure \/ Launched \/ Ended \/ UNCHANGED vars
  BY <1>2, <1>11 DEF Launch, MakePipe, Fork, ForkFailure, Launched, Ended, vars
<1> QED BY <1>5, <1>7, <1>8, <1>9, <1>10, <1>11 DEF Next

\* The shell's own commands run beside no pipeline that is being launched.
LEMMA ShellEnds ==
    ASSUME Inv, AllApplied, Begin \/ Save \/ ApplyNext \/ RunAction \/ Return
    PROVE  OpenEnds = {} /\ pipeline' = pipeline /\ pipeline = NoPipeline
<1>1. CASE Begin
  BY <1>1, EndsThen DEF Begin, Ready
<1>2. CASE Return
  BY <1>2, EndsThen DEF Return
<1>3. CASE Save \/ ApplyNext \/ RunAction
  <2>1. frames # <<>> /\ Len(frames) \in 1 .. Len(frames) /\ Top = frames[Len(frames)] /\ pipeline' = pipeline
    BY <1>3, TopIs DEF Save, ApplyNext, RunAction
  <2>2. ~Top.running
    <3>1. Top.running => Top.toSave = {} /\ Top.applied = Len(Top.ops) /\ Top.applied \in Nat
      BY <2>1, TopIs DEF Inv, Stacked, AllApplied, FrameType
    <3>2. Len(Top.ops) \in Nat
      BY <2>1, TopIs, OpListsAre DEF FrameType
    <3>3. Top.toSave # {} \/ (Top.toSave = {} /\ Top.applied < Len(Top.ops)) \/ ~Top.running
      BY <1>3 DEF Save, ApplyNext, RunAction
    <3> QED BY <3>1, <3>2, <3>3
  <2> QED BY <2>1, <2>2, EndsThen DEF Resting, Inv, Piped
<1> QED BY <1>1, <1>2, <1>3

LEMMA ShellTidy ==
    ASSUME Inv, ~(HereDocs /\ ClosesStdin), NEW left, Tidy(table, frames, terminal, left),
           Begin \/ Save \/ ApplyNext \/ RunAction \/ Return
    PROVE  Tidy(table', frames', terminal', left)
<1>1. CASE Begin
  BY <1>1, BeginTidy
<1>2. CASE Save
  BY <1>2, SaveTidy
<1>3. CASE ApplyNext
  BY <1>3, ApplyNextTidy
<1>4. CASE RunAction
  BY <1>4, RunTidy
<1>5. CASE Return
  BY <1>5, RestoreTidy DEF Return, Leave
<1> QED BY <1>1, <1>2, <1>3, <1>4, <1>5

LEMMA StepTidy ==
    ASSUME Inv, AllApplied, ~(HereDocs /\ ClosesStdin), AllTidy, [Next]_vars, ~LaunchFails
    PROVE  AllTidy'
<1>1. CASE Begin \/ Save \/ ApplyNext \/ RunAction \/ Return
  <2>1. OpenEnds = {} /\ OpenEnds' = {}
    BY <1>1, ShellEnds DEF OpenEnds
  <2>2. Tidy(table, frames, terminal, {})
    BY <2>1 DEF AllTidy
  <2>3. Tidy(table', frames', terminal', {})
    BY <1>1, <2>2, ShellTidy
  <2> QED BY <2>1, <2>3 DEF AllTidy
<1>2. ASSUME UNCHANGED <<table, terminal, frames>>, OpenEnds' = OpenEnds PROVE AllTidy'
  BY <1>2 DEF AllTidy
<1>3. CASE Launch
  <2>1. OpenEnds = {} /\ Ends(pipeline'.pipes) = {}
    BY <1>3, EndsThen DEF Launch, NoPipeline, Ends
  <2> QED BY <1>2, <1>3, <2>1 DEF Launch, OpenEnds
<1>4. CASE MakePipe
  BY <1>4, MakePipeTidy
<1>5. CASE Fork
  <2>1. PipelineType(pipeline) /\ \E members : pipeline' = [pipeline EXCEPT !.members = members]
    BY <1>5, LaunchingIs DEF Fork
  <2> QED BY <1>2, <1>5, <2>1 DEF Fork, OpenEnds, PipelineType
<1>6. CASE ForkFailure
  <2>1. pipeline' = NoPipeline /\ ~pipeline.launched /\ UNCHANGED <<table, terminal, frames>>
    BY <1>6 DEF ForkFailure, Launching
  <2>2. OpenEnds = {} /\ OpenEnds' = {}
    BY <2>1, NoPipelineIs DEF LaunchFails, OpenEnds
  <2> QED BY <1>2, <2>1, <2>2
<1>7. CASE Launched
  BY <1>7, LaunchedTidy
<1>8. CASE Ended
  BY <1>2, <1>8, NoPipelineIs DEF Ended, OpenEnds
<1>9. CASE UNCHANGED vars
  BY <1>2, <1>9 DEF vars, OpenEnds
<1> QED BY <1>1, <1>3, <1>4, <1>5, <1>6, <1>7, <1>8, <1>9 DEF Next

LEMMA InitTidy == Init => AllTidy
<1> SUFFICES ASSUME Init PROVE AllTidy
  OBVIOUS
<1>1. /\ table = [x \in 0 .. 3 |-> [file |-> <<"terminal", x>>, cloexec |-> x = 3]]
      /\ terminal = 3 /\ frames = <<>> /\ pipeline = NoPipeline
  BY DEF Init
<1>2. OpenEnds = {}
  BY <1>1, NoPipelineIs DEF OpenEnds
<1>3. Owned(frames, terminal) = {3}
  BY <1>1 DEF Owned
<1>4. \A x \in 0 .. 3 : x \in 0 .. 2 \/ x = 3
  OBVIOUS
<1>5. 0 .. 2 \subseteq ScriptFds
  BY DEF ScriptFds, Stderr
<1>6. DOMAIN table = 0 .. 3 /\ \A x \in 0 .. 3 : table[x].cloexec => x = 3
  BY <1>1
<1>7. Stdin \in 0 .. 3 /\ Stdin # 3
  BY DEF Stdin
<1> QED BY <1>1, <1>2, <1>3, <1>4, <1>5, <1>6, <1>7 DEF AllTidy, Tidy

\* Leaks, for any instance: as long as no pipeline fails to launch, and here documents are not read
\* where standard input may be closed, the shell's own descriptors are all that closes on exec and
\* nothing else stays open (run_with_command_redirections, execute_pipeline).  Both exceptions are
\* real: the code leaves pipes open behind a failed fork, and close-on-exec set on a here document
\* that was given descriptor 0 by its own pipe.
THEOREM NothingLeaksTheorem ==
    ASSUME ~(HereDocs /\ ClosesStdin)
    PROVE  Spec /\ [][~LaunchFails]_vars => []NothingLeaks
<1>1. Inv /\ AllApplied /\ AllTidy /\ [Next]_vars /\ [~LaunchFails]_vars => AllApplied' /\ AllTidy'
  <2>1. ASSUME Inv, AllTidy, UNCHANGED vars PROVE AllTidy'
    BY <2>1 DEF vars, AllTidy, OpenEnds
  <2> QED BY <2>1, StepApplied, StepTidy
<1>2. Inv /\ AllTidy => NothingLeaks
  <2> SUFFICES ASSUME Inv, AllTidy PROVE NothingLeaks
    OBVIOUS
  <2>1. Owned(frames, terminal) = AllBackups \cup {terminal}
    BY DEF Owned, AllBackups
  <2>2. /\ \A x \in Owned(frames, terminal) : x \in DOMAIN table /\ table[x].cloexec
        /\ table[terminal].file = <<"terminal", 3>>
    <3>1. DOMAIN frames = 1 .. Len(frames)
      BY DEF Inv, Typed
    <3> QED BY <3>1 DEF Inv, Kept, Owned
  <2>3. OpenEnds \subseteq Ends(pipeline.pipes)
    BY DEF OpenEnds
  <2> QED BY <2>1, <2>2, <2>3 DEF NothingLeaks, AllTidy, Tidy
<1>3. Init => AllApplied
  BY DEF Init, AllApplied
<1> QED BY InitTidy, Invariance, <1>1, <1>2, <1>3, PTL DEF Spec

-----------------------------------------------------------------------------
(* Who holds the ends of a pipe *)

PipeEnd(file) == file[1] \in {"read", "write"}

\* What redirections open is not the end of a pipeline's pipe.
FilesAreNoPipes == \A op \in Anywhere \cup Alone \cup OfMembers : ~PipeEnd(op.file)

\* No member of a pipeline copies a number that one of its pipes happens to have.
NamesNoEnd ==
    \A i \in DOMAIN pipeline.stages : \A n \in DOMAIN pipeline.stages[i] :
        pipeline.stages[i][n].type = "duplicate" => pipeline.stages[i][n].from \notin Ends(pipeline.pipes)

Unpiped(t, ends) == \A x \in DOMAIN t \ ends : ~PipeEnd(t[x].file)

\* The i-th member may hold the read end of the pipe before it and the write end of the one behind.
Own(file, i) == (file[1] = "read" => file[2] = i - 1) /\ (file[1] = "write" => file[2] = i)
HoldsOwn(t, i) == \A x \in DOMAIN t : Own(t[x].file, i)

Stages == {<<>>} \cup [1 .. 1 -> OfMembers]
Wiring ==
    /\ pipeline.stages \in Seq(Stages)
    /\ pipeline.members \in Seq([started : BOOLEAN, table : Tables])
    /\ ~pipeline.launched => \A k \in DOMAIN pipeline.pipes :
        /\ pipeline.pipes[k].read \in DOMAIN table /\ table[pipeline.pipes[k].read].file = <<"read", k>>
        /\ pipeline.pipes[k].write \in DOMAIN table /\ table[pipeline.pipes[k].write].file = <<"write", k>>
    /\ \A i \in DOMAIN pipeline.members : HoldsOwn(pipeline.members[i].table, i)

AllWired == Unpiped(table, OpenEnds) /\ Wiring

LEMMA PlainIsOwn == ASSUME NEW file, ~PipeEnd(file) PROVE \A i : Own(file, i)
BY DEF PipeEnd, Own

LEMMA RestoreUnpiped ==
    ASSUME NEW t, NEW f, Unpiped(t, {})
    PROVE  Unpiped(Restored(t, f), {})
<1> DEFINE back == PutBack(t, f.saved)
           kept == IF f.kind = "exec" THEN t ELSE back
<1>1. \A x \in DOMAIN back : \E y \in DOMAIN t : back[x].file = t[y].file
  <2> SUFFICES ASSUME NEW x \in DOMAIN back PROVE \E y \in DOMAIN t : back[x].file = t[y].file
    OBVIOUS
  <2>1. CASE x \in DOMAIN f.saved /\ f.saved[x].backup \in DOMAIN t
    <3>1. back[x].file = t[f.saved[x].backup].file
      BY <2>1 DEF PutBack
    <3> QED BY <2>1, <3>1
  <2>2. CASE ~(x \in DOMAIN f.saved /\ f.saved[x].backup \in DOMAIN t)
    <3>1. x \in DOMAIN t /\ back[x].file = t[x].file
      BY <2>2 DEF PutBack
    <3> QED BY <3>1
  <2> QED BY <2>1, <2>2
<1> HIDE DEF back
<1>2. \A x \in DOMAIN kept : \E y \in DOMAIN t : kept[x].file = t[y].file
  BY <1>1
<1> HIDE DEF kept
<1>3. Unpiped(Drop(kept, Backups(f)), {})
  BY <1>2 DEF Drop, Unpiped
<1> QED BY <1>3 DEF Restored, kept, back

\* Redirected commands of the shell put no end of a pipe anywhere.
LEMMA ShellUnpiped ==
    ASSUME Inv, FilesAreNoPipes, Unpiped(table, {}),
           Begin \/ Save \/ ApplyNext \/ RunAction \/ Return
    PROVE  Unpiped(table', {})
<1>1. CASE Begin
  <2>1. terminal \in DOMAIN table
    BY DEF Inv, Kept
  <2>2. \A m : Unpiped(Put(Drop(table, {terminal}), m, table[terminal].file, TRUE), {})
    BY <2>1 DEF Unpiped, Put, Drop
  <2> QED BY <1>1, <2>2 DEF Begin, MoveTerminal, Enter
<1>2. CASE Save
  <2>1. \A b : \A fd \in DOMAIN table : Unpiped(Put(table, b, table[fd].file, TRUE), {})
    BY DEF Unpiped, Put
  <2>2. \A S : Unpiped(Drop(table, S), {})
    BY DEF Unpiped, Drop
  <2> QED BY <1>2, <2>1, <2>2 DEF Save, GiveUp
<1>3. CASE ApplyNext
  <2> DEFINE op == Top.ops[Top.applied + 1]
             r == Apply(table, op)
  <2>1. frames # <<>> /\ Top.applied < Len(Top.ops) /\ (IF r.ok THEN table' = r.table ELSE Leave(r.table))
    BY <1>3 DEF ApplyNext
  <2>2. Top.applied + 1 \in DOMAIN Top.ops
    <3>1. Top.applied \in Nat /\ Len(Top.ops) \in Nat /\ DOMAIN Top.ops = 1 .. Len(Top.ops)
      BY <2>1, TopIs, OpListsAre DEF FrameType
    <3> QED BY <2>1, <3>1
  <2>3. op \in Anywhere \cup Alone /\ op \in Redirection /\ table \in Tables
    BY <2>1, <2>2, TopNames DEF Inv, Typed
  <2>4. ~PipeEnd(op.file) /\ ~PipeEnd(Here)
    BY <2>3 DEF FilesAreNoPipes, PipeEnd, Here
  <2> HIDE DEF op
  <2>5. \A x \in DOMAIN r.table : (x \in DOMAIN table /\ r.table[x] = table[x]) \/ Made(table, r.table, op, x)
    BY <2>3, ApplyMakes
  <2> HIDE DEF r
  <2>6. Unpiped(r.table, {})
    BY <2>4, <2>5 DEF Unpiped, Made
  <2> QED BY <2>1, <2>6, RestoreUnpiped DEF Leave
<1>4. CASE RunAction
  BY <1>4 DEF RunAction
<1>5. CASE Return
  BY <1>5, RestoreUnpiped DEF Return, Leave
<1> QED BY <1>1, <1>2, <1>3, <1>4, <1>5

LEMMA NoPipelineWired == NoPipeline.stages = <<>> /\ NoPipeline.members = <<>> /\ NoPipeline.pipes = <<>>
BY DEF NoPipeline

LEMMA ShellWired ==
    ASSUME Inv, AllApplied, FilesAreNoPipes, AllWired,
           Begin \/ Save \/ ApplyNext \/ RunAction \/ Return
    PROVE  AllWired'
<1>1. OpenEnds = {} /\ pipeline' = pipeline
  BY ShellEnds
<1>2. Unpiped(table', {})
  BY <1>1, ShellUnpiped DEF AllWired
<1>3. OpenEnds' = {}
  BY <1>1 DEF OpenEnds
<1>4. ~pipeline.launched => DOMAIN pipeline.pipes = {}
  BY <1>1 DEF OpenEnds, Ends
<1> QED BY <1>1, <1>2, <1>3, <1>4 DEF AllWired, Wiring

\* What a list of at most one redirection comes to.
LEMMA AtMostOne ==
    ASSUME NEW t, NEW ops \in Stages
    PROVE  /\ ops = <<>> => ApplyOrdered(t, ops) = Done(t)
           /\ ops # <<>> => ops[1] \in OfMembers /\ ApplyOrdered(t, ops) = Apply(t, ops[1])
           /\ ops # <<>> => 1 \in DOMAIN ops
<1> DEFINE Turn(f, n) == IF n = 0 THEN Done(t) ELSE IF f[n - 1].ok THEN Apply(f[n - 1].table, ops[n]) ELSE f[n - 1]
           Body(f) == [n \in 0 .. Len(ops) |-> Turn(f, n)]
           g == CHOOSE f : f = Body(f)
<1>1. ApplyOrdered(t, ops) = g[Len(ops)]
  BY DEF ApplyOrdered
<1>2. CASE ops = <<>>
  <2>1. Len(ops) = 0 /\ 0 .. 0 = {0}
    BY <1>2
  <2> DEFINE h == [n \in 0 .. 0 |-> Done(t)]
  <2>2. h = Body(h)
    BY <2>1
  <2>3. g = Body(g)
    BY <2>2
  <2>4. g[0] = Turn(g, 0)
    <3> HIDE DEF g, Turn
    <3> QED BY <2>1, <2>3
  <2> QED BY <1>1, <1>2, <2>1, <2>4
<1>3. CASE ops # <<>>
  <2>1. ops \in [1 .. 1 -> OfMembers]
    BY <1>3 DEF Stages
  <2>2. Len(ops) = 1 /\ 1 \in DOMAIN ops /\ ops[1] \in OfMembers
    BY <2>1
  <2> DEFINE h == [n \in 0 .. 1 |-> IF n = 0 THEN Done(t) ELSE Apply(t, ops[1])]
  <2>3. h[0] = Done(t) /\ h[1] = Apply(t, ops[1]) /\ h[0].ok /\ h[0].table = t
    BY DEF Done
  <2>4. h = Body(h)
    <3>1. \A n \in 0 .. 1 : n = 0 \/ n = 1
      OBVIOUS
    <3>2. Turn(h, 0) = Done(t) /\ Turn(h, 1) = Apply(t, ops[1])
      <4> HIDE DEF h
      <4> QED BY <2>3
    <3>3. \A n \in 0 .. 1 : h[n] = Turn(h, n)
      <4> HIDE DEF h, Turn
      <4> QED BY <2>3, <3>1, <3>2
    <3>4. h = [n \in 0 .. 1 |-> h[n]]
      OBVIOUS
    <3> HIDE DEF h, Turn
    <3> QED BY <2>2, <3>3, <3>4
  <2>5. g = Body(g)
    <3> HIDE DEF h, Body
    <3> QED BY <2>4
  <2>6. g[0] = Turn(g, 0) /\ g[1] = Turn(g, 1)
    <3> HIDE DEF g, Turn
    <3>1. 0 \in 0 .. 1 /\ 1 \in 0 .. 1
      OBVIOUS
    <3> QED BY <2>2, <2>5, <3>1
  <2>7. g[0] = Done(t)
    <3> HIDE DEF g
    <3> QED BY <2>6
  <2>8. g[1] = Apply(t, ops[1])
    <3>1. Done(t).ok /\ Done(t).table = t
      BY DEF Done
    <3> HIDE DEF g
    <3> QED BY <2>6, <2>7, <3>1
  <2> QED BY <1>1, <1>3, <2>2, <2>8
<1> QED BY <1>2, <1>3

\* The child before its redirections: outside the pipes it was born with it has its own ends.
LEMMA WiredOwn ==
    ASSUME NEW t \in Tables, NEW i \in Nat \ {0}, PipelineType(pipeline),
           i <= Len(pipeline.pipes) + 1,
           \A k \in DOMAIN pipeline.pipes :
                /\ pipeline.pipes[k].read \in DOMAIN t /\ t[pipeline.pipes[k].read].file = <<"read", k>>
                /\ pipeline.pipes[k].write \in DOMAIN t /\ t[pipeline.pipes[k].write].file = <<"write", k>>,
           Unpiped(t, Ends(pipeline.pipes))
    PROVE  /\ Wired(t, i) \in Tables
           /\ \A x \in DOMAIN Wired(t, i) \ Ends(pipeline.pipes) : Own(Wired(t, i)[x].file, i)
<1> DEFINE pipes == pipeline.pipes
           input == IF i > 1 THEN Dup2(t, pipes[i - 1].read, Stdin) ELSE t
           ends == Ends(pipes)
<1>1. pipes \in Seq(PipeType) /\ Len(pipes) \in Nat /\ DOMAIN pipes = 1 .. Len(pipes)
  BY DEF PipelineType
<1>2. Stdin \in FD /\ Stdout \in FD
  BY LimitAssumption DEF FD, Stdin, Stdout
<1>3. \A x \in DOMAIN t \ ends : Own(t[x].file, i)
  BY PlainIsOwn DEF Unpiped
<1>4. Own(<<"read", i - 1>>, i) /\ Own(<<"write", i>>, i)
  BY DEF Own
<1> HIDE DEF ends
<1>5. /\ input \in Tables
      /\ \A x \in DOMAIN input \ ends : Own(input[x].file, i)
      /\ \A x \in DOMAIN t : x \in DOMAIN input /\ (input[x] = t[x] \/ Own(input[x].file, i))
  <2>1. CASE i > 1
    <3> DEFINE r == pipes[i - 1].read
    <3>1. i - 1 \in DOMAIN pipes
      BY <1>1, <2>1
    <3>2. r \in DOMAIN t /\ t[r].file = <<"read", i - 1>>
      BY <3>1
    <3> HIDE DEF r
    <3>3. Dup2(t, r, Stdin) \in Tables
      BY <1>2, <3>2, Dup2Table
    <3>4. \A x \in DOMAIN Dup2(t, r, Stdin) : \/ x \in DOMAIN t /\ Dup2(t, r, Stdin)[x] = t[x]
                                              \/ Dup2(t, r, Stdin)[x].file = <<"read", i - 1>>
      BY <3>2 DEF Dup2, Put
    <3>5. DOMAIN t \subseteq DOMAIN Dup2(t, r, Stdin)
      BY DEF Dup2, Put
    <3>6. input = Dup2(t, r, Stdin)
      BY <2>1 DEF r
    <3> HIDE DEF input
    <3> QED BY <1>3, <1>4, <3>3, <3>4, <3>5, <3>6
  <2>2. CASE ~(i > 1)
    BY <1>3, <2>2
  <2> QED BY <2>1, <2>2
<1>6. Wired(t, i) = IF i <= Len(pipes) THEN Dup2(input, pipes[i].write, Stdout) ELSE input
  BY DEF Wired
<1> HIDE DEF input
<1>7. CASE i <= Len(pipes)
  <2> DEFINE w == pipes[i].write
             u == Dup2(input, w, Stdout)
  <2>1. i \in DOMAIN pipes
    BY <1>1, <1>7
  <2>2. w \in DOMAIN t /\ t[w].file = <<"write", i>>
    BY <2>1
  <2> HIDE DEF w
  <2>3. w \in DOMAIN input /\ Own(input[w].file, i)
    BY <1>4, <1>5, <2>2
  <2>4. u \in Tables
    BY <1>2, <1>5, <2>3, Dup2Table
  <2>5. \A x \in DOMAIN u : (x \in DOMAIN input /\ u[x] = input[x]) \/ u[x].file = input[w].file
    BY DEF Dup2, Put
  <2>6. Wired(t, i) = u
    BY <1>6, <1>7 DEF w
  <2> HIDE DEF u
  <2>7. \A x \in DOMAIN u \ ends : Own(u[x].file, i)
    BY <1>5, <2>3, <2>5
  <2> QED BY <2>4, <2>6, <2>7 DEF ends
<1>8. CASE ~(i <= Len(pipes))
  BY <1>5, <1>6, <1>8 DEF ends
<1> QED BY <1>7, <1>8

LEMMA ForkWired ==
    ASSUME Inv, FilesAreNoPipes, AllWired, NamesNoEnd, Fork
    PROVE  AllWired'
<1> DEFINE i == Len(pipeline.members) + 1
           ops == pipeline.stages[i]
           ends == Ends(pipeline.pipes)
           r == ApplyOrdered(Wired(table, i), ops)
           child == [started |-> r.ok, table |-> CloseAll(r.table, pipeline.pipes)]
<1>1. /\ Launching /\ ~pipeline.launched /\ PipesMade /\ Len(pipeline.members) < Len(pipeline.stages)
      /\ UNCHANGED <<table, terminal, frames>>
      /\ pipeline' = [pipeline EXCEPT !.members = Append(@, child)]
  BY DEF Fork, Launching, Child
<1>2. PipelineType(pipeline) /\ table \in Tables /\ OpenEnds = ends
  BY <1>1, LaunchingIs DEF OpenEnds
<1>3. /\ pipeline.stages \in Seq(Stages)
      /\ pipeline.members \in Seq([started : BOOLEAN, table : Tables]) /\ Len(pipeline.members) \in Nat
      /\ pipeline.pipes \in Seq(PipeType)
  BY <1>2 DEF AllWired, Wiring, PipelineType
<1>4. i \in Nat \ {0} /\ i \in DOMAIN pipeline.stages /\ i <= Len(pipeline.pipes) + 1
  BY <1>1, <1>3 DEF PipesMade
<1>5. ops \in Stages
  BY <1>3, <1>4
<1>6. /\ Wired(table, i) \in Tables
      /\ \A x \in DOMAIN Wired(table, i) \ ends : Own(Wired(table, i)[x].file, i)
  <2>1. \A k \in DOMAIN pipeline.pipes :
                /\ pipeline.pipes[k].read \in DOMAIN table /\ table[pipeline.pipes[k].read].file = <<"read", k>>
                /\ pipeline.pipes[k].write \in DOMAIN table /\ table[pipeline.pipes[k].write].file = <<"write", k>>
    BY <1>1 DEF AllWired, Wiring
  <2>2. Unpiped(table, ends)
    BY <1>2 DEF AllWired
  <2> HIDE DEF i
  <2> QED BY <1>2, <1>4, <2>1, <2>2, WiredOwn
<1> DEFINE w == Wired(table, i)
<1>7. /\ r.ok \in BOOLEAN /\ r.table \in Tables
      /\ \A x \in DOMAIN r.table \ ends : Own(r.table[x].file, i)
  <2>1. CASE ops = <<>>
    <3>1. r = Done(w)
      BY <1>5, <2>1, AtMostOne
    <3>2. r.ok = TRUE /\ r.table = w
      BY <3>1 DEF Done
    <3> HIDE DEF r, w
    <3> QED BY <1>6, <3>2 DEF w
  <2>2. CASE ops # <<>>
    <3> DEFINE op == ops[1]
    <3>1. op \in OfMembers /\ 1 \in DOMAIN ops /\ r = Apply(w, op)
      BY <1>5, <2>2, AtMostOne
    <3>2. op \in Redirection /\ ~PipeEnd(op.file) /\ ~PipeEnd(Here)
      BY <3>1, RedirectionsAssumption DEF FilesAreNoPipes, PipeEnd, Here
    <3>3. op.type = "duplicate" => op.from \notin ends
      BY <1>4, <3>1 DEF NamesNoEnd
    <3> HIDE DEF op, w, i
    <3>4. /\ \A x \in DOMAIN r.table : (x \in DOMAIN w /\ r.table[x] = w[x]) \/ Made(w, r.table, op, x)
          /\ r.ok \in BOOLEAN /\ r.table \in Tables
      <4>1. w \in Tables
        BY <1>6 DEF w
      <4>2. /\ \A x \in DOMAIN Apply(w, op).table :
                 (x \in DOMAIN w /\ Apply(w, op).table[x] = w[x]) \/ Made(w, Apply(w, op).table, op, x)
            /\ Apply(w, op).ok \in BOOLEAN
        BY <3>2, <4>1, ApplyMakes
      <4>3. Apply(w, op).table \in Tables
        BY <3>2, <4>1, ApplyTable
      <4> HIDE DEF r
      <4> QED BY <3>1, <4>2, <4>3
    <3>5. \A x \in DOMAIN w \ ends : Own(w[x].file, i)
      BY <1>6 DEF w
    <3>6. Own(op.file, i) /\ Own(Here, i)
      BY <3>2, PlainIsOwn
    <3> HIDE DEF r, ends
    <3> QED BY <3>3, <3>4, <3>5, <3>6 DEF Made
  <2> QED BY <2>1, <2>2
<1> HIDE DEF r, i
<1>8. HoldsOwn(CloseAll(r.table, pipeline.pipes), i) /\ CloseAll(r.table, pipeline.pipes) \in Tables
  <2>1. DOMAIN Drop(r.table, ends) = DOMAIN r.table \ ends /\ \A x \in DOMAIN Drop(r.table, ends) : Drop(r.table, ends)[x] = r.table[x]
    BY DEF Drop
  <2>2. Drop(r.table, ends) \in Tables
    BY <1>7, DropTable
  <2> HIDE DEF ends
  <2> QED BY <1>7, <2>1, <2>2 DEF HoldsOwn, CloseAll, ends
<1>9. child \in [started : BOOLEAN, table : Tables] /\ HoldsOwn(child.table, i)
  BY <1>7, <1>8
<1> HIDE DEF child
<1>10. /\ pipeline'.members = Append(pipeline.members, child) /\ pipeline'.stages = pipeline.stages
       /\ pipeline'.pipes = pipeline.pipes /\ pipeline'.launched = pipeline.launched
  BY <1>1, <1>2 DEF PipelineType
<1>11. /\ pipeline'.members \in Seq([started : BOOLEAN, table : Tables])
       /\ \A j \in DOMAIN pipeline'.members : HoldsOwn(pipeline'.members[j].table, j)
  <2>1. DOMAIN Append(pipeline.members, child) = 1 .. i /\ DOMAIN pipeline.members = 1 .. i - 1
    BY <1>3 DEF i
  <2>2. /\ Append(pipeline.members, child) \in Seq([started : BOOLEAN, table : Tables])
        /\ Append(pipeline.members, child)[i] = child
        /\ \A j \in 1 .. i - 1 : Append(pipeline.members, child)[j] = pipeline.members[j]
    BY <1>3, <1>9 DEF i
  <2>3. \A j \in 1 .. i - 1 : HoldsOwn(pipeline.members[j].table, j)
    BY <2>1 DEF AllWired, Wiring
  <2>4. \A j \in 1 .. i : j = i \/ j \in 1 .. i - 1
    BY <1>4
  <2> QED BY <1>9, <1>10, <2>1, <2>2, <2>3, <2>4
<1>12. OpenEnds' = OpenEnds
  BY <1>10 DEF OpenEnds
<1> QED BY <1>1, <1>10, <1>11, <1>12 DEF AllWired, Wiring

LEMMA MakePipeWired ==
    ASSUME Inv, MakePipe, ~LaunchFails, AllWired
    PROVE  AllWired'
<1>1. ~pipeline.launched
  BY DEF MakePipe, Launching
<1>2. CASE pipeline' = NoPipeline /\ table' = table
  <2>1. OpenEnds = {} /\ OpenEnds' = {}
    BY <1>1, <1>2, NoPipelineIs DEF LaunchFails, OpenEnds
  <2> QED BY <1>2, <2>1, NoPipelineWired DEF AllWired, Wiring
<1>3. ASSUME NEW read, NEW write, MakesEnds(read, write) PROVE AllWired'
  <2>1. DOMAIN table' = DOMAIN table \cup {read, write} /\ OpenEnds' = OpenEnds \cup {read, write}
        /\ \A x \in DOMAIN table : table'[x] = table[x]
    BY <1>3 DEF MakesEnds
  <2>2. Unpiped(table', OpenEnds')
    BY <2>1 DEF Unpiped, AllWired
  <2> DEFINE k == Len(pipeline.pipes) + 1
  <2>3. /\ DOMAIN pipeline'.pipes = DOMAIN pipeline.pipes \cup {k}
        /\ \A j \in DOMAIN pipeline.pipes : pipeline'.pipes[j] = pipeline.pipes[j]
        /\ pipeline'.pipes[k].read = read /\ pipeline'.pipes[k].write = write
        /\ table'[read].file = <<"read", k>> /\ table'[write].file = <<"write", k>>
    BY <1>3 DEF MakesEnds
  <2> HIDE DEF k
  <2>4. \A j \in DOMAIN pipeline'.pipes :
                /\ pipeline'.pipes[j].read \in DOMAIN table' /\ table'[pipeline'.pipes[j].read].file = <<"read", j>>
                /\ pipeline'.pipes[j].write \in DOMAIN table' /\ table'[pipeline'.pipes[j].write].file = <<"write", j>>
    <3>1. \A j \in DOMAIN pipeline.pipes :
                /\ pipeline.pipes[j].read \in DOMAIN table /\ table[pipeline.pipes[j].read].file = <<"read", j>>
                /\ pipeline.pipes[j].write \in DOMAIN table /\ table[pipeline.pipes[j].write].file = <<"write", j>>
      BY <1>1 DEF AllWired, Wiring
    <3> QED BY <2>1, <2>3, <3>1
  <2>5. pipeline'.stages = pipeline.stages /\ pipeline'.members = pipeline.members
    BY <1>3 DEF MakesEnds
  <2> QED BY <2>2, <2>4, <2>5 DEF AllWired, Wiring
<1> QED BY <1>2, <1>3, PipeMade

LEMMA StepWired ==
    ASSUME Inv, AllApplied, FilesAreNoPipes, AllWired, NamesNoEnd, [Next]_vars, ~LaunchFails
    PROVE  AllWired'
<1>1. CASE Begin \/ Save \/ ApplyNext \/ RunAction \/ Return
  BY <1>1, ShellWired
<1>2. CASE Launch
  <2>1. PICK n \in 1 .. MaxMembers : \E stages \in [1 .. n -> {<<>>} \cup [1 .. 1 -> OfMembers]] :
            pipeline' = [NoPipeline EXCEPT !.stages = stages]
    BY <1>2 DEF Launch
  <2>2. PICK stages \in [1 .. n -> Stages] : pipeline' = [NoPipeline EXCEPT !.stages = stages]
    BY <2>1 DEF Stages
  <2>3. n \in Nat
    BY RedirectionsAssumption
  <2>4. stages \in Seq(Stages)
    BY <2>3
  <2>5. /\ pipeline'.stages = stages /\ pipeline'.pipes = <<>> /\ pipeline'.members = <<>>
        /\ pipeline'.launched = FALSE
    BY <2>2 DEF NoPipeline
  <2>6. OpenEnds = {} /\ OpenEnds' = {}
    <3>1. Ends(<<>>) = {}
      BY NoPipelineIs, NoPipelineWired
    <3>2. OpenEnds' = {}
      BY <2>5, <3>1 DEF OpenEnds
    <3>3. OpenEnds = {}
      BY <1>2, EndsThen DEF Launch
    <3> QED BY <3>2, <3>3
  <2>7. table' = table
    BY <1>2 DEF Launch
  <2> QED BY <2>4, <2>5, <2>6, <2>7 DEF AllWired, Wiring
<1>3. CASE MakePipe
  BY <1>3, MakePipeWired
<1>4. CASE Fork
  BY <1>4, ForkWired
<1>5. CASE ForkFailure \/ Ended
  <2>1. pipeline' = NoPipeline /\ table' = table /\ (pipeline.launched \/ ~LaunchFails)
    BY <1>5 DEF ForkFailure, Ended
  <2>2. OpenEnds = {} /\ OpenEnds' = {}
    BY <2>1, NoPipelineIs DEF LaunchFails, OpenEnds
  <2> QED BY <2>1, <2>2, NoPipelineWired DEF AllWired, Wiring
<1>6. CASE Launched
  <2> DEFINE t == Drop(table, Ends(pipeline.pipes))
  <2>1. /\ Launching /\ table' = t
        /\ pipeline' = [pipeline EXCEPT !.launched = TRUE]
    BY <1>6 DEF Launched
  <2>2. PipelineType(pipeline) /\ OpenEnds = Ends(pipeline.pipes)
    BY <2>1, LaunchingIs DEF OpenEnds, Launching
  <2>3. /\ pipeline'.launched = TRUE /\ pipeline'.stages = pipeline.stages
        /\ pipeline'.members = pipeline.members /\ pipeline'.pipes = pipeline.pipes
    BY <2>1, <2>2 DEF PipelineType
  <2>4. OpenEnds' = {}
    BY <2>3 DEF OpenEnds
  <2>5. Unpiped(t, {})
    BY <2>2 DEF Unpiped, Drop, AllWired
  <2> HIDE DEF t
  <2> QED BY <2>1, <2>3, <2>4, <2>5 DEF AllWired, Wiring
<1>7. CASE UNCHANGED vars
  BY <1>7 DEF vars, AllWired, Wiring, OpenEnds
<1> QED BY <1>1, <1>2, <1>3, <1>4, <1>5, <1>6, <1>7 DEF Next

LEMMA InitWired == Init => AllWired
<1> SUFFICES ASSUME Init PROVE AllWired
  OBVIOUS
<1>1. /\ table = [x \in 0 .. 3 |-> [file |-> <<"terminal", x>>, cloexec |-> x = 3]]
      /\ pipeline = NoPipeline
  BY DEF Init
<1>2. Unpiped(table, {})
  BY <1>1 DEF Unpiped, PipeEnd
<1>3. OpenEnds = {}
  BY <1>1, NoPipelineIs DEF OpenEnds
<1> QED BY <1>1, <1>2, <1>3, NoPipelineWired DEF AllWired, Wiring

\* The ends of a pipe, for any instance: as long as no pipeline fails to launch and no member copies
\* a number that one of its pipes happens to have, each end is held by the member it is for and
\* nobody else once the pipeline runs, so readers see the end of their input (execute_pipeline).
\* The code keeps neither exception from happening.
THEOREM EndsHeldOnceTheorem ==
    ASSUME FilesAreNoPipes
    PROVE  Spec /\ []NamesNoEnd /\ [][~LaunchFails]_vars => []EndsHeldOnce
<1>1. Inv /\ AllApplied /\ AllWired /\ NamesNoEnd /\ [Next]_vars /\ [~LaunchFails]_vars => AllApplied' /\ AllWired'
  <2>1. ASSUME AllWired, UNCHANGED vars PROVE AllWired'
    BY <2>1 DEF vars, AllWired, Wiring, OpenEnds
  <2> QED BY <2>1, StepApplied, StepWired
<1>2. AllWired => EndsHeldOnce
  BY DEF AllWired, Wiring, Unpiped, OpenEnds, PipeEnd, HoldsOwn, Own, EndsHeldOnce
<1>3. Init => AllApplied
  BY DEF Init, AllApplied
<1> QED BY InitWired, Invariance, <1>1, <1>2, <1>3, PTL DEF Spec

-----------------------------------------------------------------------------
(* Redirections mean what they say *)

\* What is seen after the first n redirections.
Seeing(view, ops, seen) ==
    seen = [n \in 0 .. Len(ops) |-> IF n = 0 THEN view ELSE After(seen[n - 1], ops[n])]
Seen(view, ops) == CHOOSE seen : Seeing(view, ops, seen)

\* Induction over redirections is induction over how many there are.
LEMMA SeenIs ==
    ASSUME NEW view, NEW ops, Len(ops) \in Nat
    PROVE  /\ Seen(view, ops)[0] = view
           /\ \A n \in 1 .. Len(ops) : Seen(view, ops)[n] = After(Seen(view, ops)[n - 1], ops[n])
           /\ Promised(view, ops) = Seen(view, ops)[Len(ops)]
<1> DEFINE Body(f, n) == [k \in 0 .. n |-> IF k = 0 THEN view ELSE After(f[k - 1], ops[k])]
           Some(n) == \E f : f = Body(f, n)
           none == {n \in Nat : ~Some(n)}
<1>1. Some(0)
  <2> DEFINE f == [k \in 0 .. 0 |-> view]
  <2>1. \A k \in 0 .. 0 : k = 0
    OBVIOUS
  <2>2. f = Body(f, 0)
    BY <2>1
  <2> HIDE DEF Body
  <2> QED BY <2>2
<1>2. ASSUME NEW n \in Nat, Some(n) PROVE Some(n + 1)
  <2>1. PICK f : f = Body(f, n)
    BY <1>2
  <2> DEFINE g == [k \in 0 .. n + 1 |-> IF k = n + 1 THEN After(f[n], ops[n + 1]) ELSE f[k]]
  <2>2. g[0] = view
    <3>1. f[0] = view /\ 0 \in 0 .. n + 1 /\ 0 # n + 1
      BY <2>1
    <3> QED BY <3>1
  <2>3. \A k \in 1 .. n + 1 : g[k] = After(g[k - 1], ops[k])
    <3> SUFFICES ASSUME NEW k \in 1 .. n + 1 PROVE g[k] = After(g[k - 1], ops[k])
      OBVIOUS
    <3>1. k - 1 \in 0 .. n + 1 /\ k - 1 # n + 1 /\ g[k - 1] = f[k - 1]
      OBVIOUS
    <3>2. CASE k = n + 1
      <4>1. k - 1 = n /\ g[k] = After(f[n], ops[k])
        BY <3>2
      <4> HIDE DEF g
      <4> QED BY <3>1, <4>1
    <3>3. CASE k # n + 1
      <4>1. k \in 0 .. n /\ k # 0 /\ g[k] = f[k]
        BY <3>3
      <4>2. f[k] = After(f[k - 1], ops[k])
        BY <2>1, <4>1
      <4> HIDE DEF g
      <4> QED BY <3>1, <4>1, <4>2
    <3> QED BY <3>2, <3>3
  <2>4. g = [k \in 0 .. n + 1 |-> g[k]]
    OBVIOUS
  <2> HIDE DEF g
  <2>5. \A k \in 0 .. n + 1 : g[k] = IF k = 0 THEN view ELSE After(g[k - 1], ops[k])
    <3>1. \A k \in 0 .. n + 1 : k = 0 \/ k \in 1 .. n + 1
      OBVIOUS
    <3> QED BY <2>2, <2>3, <3>1
  <2>6. g = Body(g, n + 1)
    BY <2>4, <2>5
  <2> HIDE DEF Body
  <2> QED BY <2>6
<1> HIDE DEF Some
<1>3. none = {}
  <2> SUFFICES ASSUME none # {} PROVE FALSE
    OBVIOUS
  <2> DEFINE m == Lowest(none)
  <2>1. m \in none /\ \A y \in none : m <= y
    BY HasLowest
  <2> HIDE DEF m
  <2>2. m # 0
    BY <1>1, <2>1
  <2>3. m - 1 \in Nat /\ m - 1 \notin none
    BY <2>1, <2>2
  <2>4. Some(m - 1)
    BY <2>3
  <2>5. Some((m - 1) + 1)
    BY <1>2, <2>3, <2>4
  <2> QED BY <2>1, <2>3, <2>5
<1>4. \E f : Seeing(view, ops, f)
  <2>1. Some(Len(ops))
    BY <1>3
  <2> QED BY <2>1 DEF Some, Seeing
<1>5. Seeing(view, ops, Seen(view, ops))
  BY <1>4 DEF Seen
<1>6. Promised(view, ops) = Seen(view, ops)[Len(ops)]
  BY DEF Promised, Seen, Seeing
<1> DEFINE f == Seen(view, ops)
<1> HIDE DEF f
<1>7. /\ f[0] = view
      /\ \A n \in 1 .. Len(ops) : f[n] = After(f[n - 1], ops[n])
  <2>1. f = [n \in 0 .. Len(ops) |-> IF n = 0 THEN view ELSE After(f[n - 1], ops[n])]
    BY <1>5 DEF Seeing, f
  <2>2. 0 \in 0 .. Len(ops) /\ \A n \in 1 .. Len(ops) : n \in 0 .. Len(ops) /\ n # 0
    OBVIOUS
  <2> QED BY <2>1, <2>2
<1> QED BY <1>6, <1>7 DEF f

\* A redirection that succeeds does to its targets what it says.
Gives(t, u, op) ==
    /\ op.type = "close" => op.fd \notin DOMAIN u
    /\ op.type # "close" => \A x \in Targets(op) :
        /\ x \in DOMAIN u
        /\ u[x].cloexec =>
              \/ op.type = "here" /\ Stdin \notin DOMAIN t
              \/ op.type = "duplicate" /\ op.from = op.fd /\ t[x].cloexec
    /\ op.type = "file" => u[op.fd].file = op.file
    /\ op.type = "both" => u[Stdout].file = op.file /\ u[Stderr].file = op.file
    /\ op.type = "here" => u[Stdin].file = Here
    /\ op.type = "duplicate" => op.from \in DOMAIN t /\ u[op.fd].file = t[op.from].file
    /\ \A x : x \notin Targets(op) => SameAt(u, t, x)

LEMMA ApplyGives ==
    ASSUME NEW t \in Tables, NEW op \in Redirection, Apply(t, op).ok
    PROVE  Gives(t, Apply(t, op).table, op)
<1> DEFINE u == Apply(t, op).table
<1>0. \A x : x \notin Targets(op) => SameAt(u, t, x)
  BY ApplyTable
<1>1. op.fd \in FD /\ op.file \in Files /\ Stdin \in FD /\ Stdout \in FD /\ Stderr \in FD /\ Stdout # Stderr
  BY LimitAssumption DEF Redirection, FD, Stdin, Stdout, Stderr
<1>2. op.type \in {"file", "duplicate", "close", "both", "here"}
  BY DEF Redirection
<1>3. CASE op.type = "file"
  <2>1. Apply(t, op) = RedirectFd(t, op.file, op.fd) /\ Targets(op) = {op.fd}
    BY <1>3 DEF Apply, Targets
  <2>2. op.fd \in DOMAIN u /\ u[op.fd] = [file |-> op.file, cloexec |-> FALSE]
    BY <1>1, <2>1, OpenedFile
  <2>3. u[op.fd].file = op.file /\ ~u[op.fd].cloexec
    BY <2>2
  <2> HIDE DEF u
  <2> QED BY <1>0, <1>3, <2>1, <2>2, <2>3 DEF Gives, u
<1>4. CASE op.type = "duplicate"
  <2>1. Apply(t, op) = SafeDup2(t, op.from, op.fd) /\ Targets(op) = {op.fd}
    BY <1>4 DEF Apply, Targets
  <2>2. op.from \in DOMAIN t /\ u = Dup2(t, op.from, op.fd)
    BY <2>1 DEF SafeDup2, Done, Failed
  <2> HIDE DEF u
  <2>3. /\ op.fd \in DOMAIN u /\ u[op.fd].file = t[op.from].file
        /\ u[op.fd].cloexec => op.from = op.fd /\ t[op.fd].cloexec
    <3>1. CASE op.from = op.fd
      BY <2>2, <3>1 DEF Dup2
    <3>2. CASE op.from # op.fd
      <4>1. t[op.from].file \in Files
        BY <2>2 DEF Tables
      <4>2. u = Put(t, op.fd, t[op.from].file, FALSE)
        BY <2>2, <3>2 DEF Dup2
      <4>3. op.fd \in DOMAIN u /\ u[op.fd] = [file |-> t[op.from].file, cloexec |-> FALSE]
        BY <4>2 DEF Put
      <4>4. u[op.fd].file = t[op.from].file /\ ~u[op.fd].cloexec
        BY <4>3
      <4> QED BY <4>3, <4>4
    <3> QED BY <3>1, <3>2
  <2> QED BY <1>0, <1>4, <2>1, <2>2, <2>3 DEF Gives, u
<1>5. CASE op.type = "close"
  <2>1. u = Drop(t, {op.fd}) /\ Targets(op) = {op.fd}
    BY <1>5 DEF Apply, Targets, Done
  <2>2. op.fd \notin DOMAIN u
    BY <2>1 DEF Drop
  <2> HIDE DEF u
  <2> QED BY <1>0, <1>5, <2>2 DEF Gives, u
<1>6. CASE op.type = "both"
  <2> DEFINE out == RedirectFd(t, op.file, Stdout)
             w == out.table
  <2>1. Apply(t, op) = (IF out.ok THEN SafeDup2(w, Stdout, Stderr) ELSE out) /\ Targets(op) = {Stdout, Stderr}
    BY <1>6 DEF Apply, Targets
  <2>2. out.ok
    BY <2>1
  <2>3. Stdout \in DOMAIN w /\ w[Stdout] = [file |-> op.file, cloexec |-> FALSE]
    BY <1>1, <2>2, OpenedFile
  <2> HIDE DEF out
  <2>4. u = Put(w, Stderr, w[Stdout].file, FALSE)
    <3>1. Stdout \in DOMAIN w /\ Stderr \in FD
      BY <1>1, <2>3
    <3> HIDE DEF w
    <3>2. SafeDup2(w, Stdout, Stderr) = Done(Dup2(w, Stdout, Stderr))
      BY <3>1 DEF SafeDup2
    <3>3. u = Dup2(w, Stdout, Stderr)
      BY <2>1, <2>2, <3>2 DEF Done
    <3> QED BY <1>1, <3>3 DEF Dup2
  <2> HIDE DEF w
  <2>5. /\ Stdout \in DOMAIN u /\ u[Stdout] = w[Stdout]
        /\ Stderr \in DOMAIN u /\ u[Stderr] = [file |-> w[Stdout].file, cloexec |-> FALSE]
    BY <1>1, <2>3, <2>4 DEF Put
  <2>6. /\ u[Stdout].file = op.file /\ ~u[Stdout].cloexec
        /\ u[Stderr].file = op.file /\ ~u[Stderr].cloexec
    BY <2>3, <2>5
  <2> HIDE DEF u
  <2> QED BY <1>0, <1>6, <2>1, <2>5, <2>6 DEF Gives, u
<1>7. CASE op.type = "here"
  <2> DEFINE end == Lowest(Free(t, 0))
             p == Put(t, end, Here, TRUE)
  <2>1. Apply(t, op) = SetupHereDocument(t) /\ Targets(op) = {Stdin}
    BY <1>7 DEF Apply, Targets
  <2>2. u = Transfer(p, end, Stdin) /\ Cardinality(Free(t, 0)) >= 2
    <3>1. ~(Cardinality(Free(t, 0)) < 2)
      <4> SUFFICES ASSUME Cardinality(Free(t, 0)) < 2 PROVE FALSE
        OBVIOUS
      <4>1. SetupHereDocument(t) = Failed(t)
        BY DEF SetupHereDocument
      <4> QED BY <2>1, <4>1 DEF Failed
    <3>2. SetupHereDocument(t) = Done(Transfer(p, end, Stdin))
      BY <3>1 DEF SetupHereDocument
    <3>3. Free(t, 0) \in SUBSET FD /\ IsFiniteSet(FD)
      BY LimitAssumption, FS_Interval DEF Free, FD
    <3>4. Cardinality(Free(t, 0)) \in Nat
      BY <3>3, FS_Subset, FS_CardinalityType
    <3> HIDE DEF p
    <3> QED BY <2>1, <3>1, <3>2, <3>4 DEF Done
  <2>3. end \in FD \ DOMAIN t
    <3>1. Free(t, 0) # {}
      BY <2>2, FS_EmptySet
    <3> QED BY <3>1, LowestFree
  <2>4. p[end] = [file |-> Here, cloexec |-> TRUE] /\ end \in DOMAIN p
    BY DEF Put
  <2> HIDE DEF end, p, u
  <2>5. Stdin \in DOMAIN u /\ u[Stdin].file = Here /\ (u[Stdin].cloexec => Stdin \notin DOMAIN t)
    <3>1. CASE end = Stdin
      BY <2>2, <2>3, <2>4, <3>1 DEF Transfer
    <3>2. CASE end # Stdin
      <4>1. u = Drop(Put(p, Stdin, p[end].file, FALSE), {end})
        BY <2>2, <3>2 DEF Transfer, Dup2
      <4>2. Stdin \in DOMAIN u /\ u[Stdin] = [file |-> Here, cloexec |-> FALSE]
        BY <2>4, <3>2, <4>1 DEF Put, Drop
      <4>3. u[Stdin].file = Here /\ ~u[Stdin].cloexec
        BY <4>2
      <4> QED BY <4>2, <4>3
    <3> QED BY <3>1, <3>2
  <2> QED BY <1>0, <1>7, <2>1, <2>5 DEF Gives, u
<1> HIDE DEF u
<1> QED BY <1>2, <1>3, <1>4, <1>5, <1>6, <1>7

\* A script sees the files of a table, except behind what is hidden from it.
Agrees(t, seen, hidden) ==
    \A x : /\ x \in hidden => x \notin DOMAIN seen
           /\ x \notin hidden => /\ x \in DOMAIN t <=> x \in DOMAIN seen
                                 /\ x \in DOMAIN t => seen[x] = t[x].file

LEMMA AfterAgrees ==
    ASSUME NEW t \in Tables, NEW op \in Redirection, NEW seen, NEW hidden, NEW u,
           Gives(t, u, op), Agrees(t, seen, hidden), op.type = "duplicate" => op.from \notin hidden
    PROVE  Agrees(u, After(seen, op), hidden \ Targets(op))
<1> DEFINE s == After(seen, op)
<1>1. op.type \in {"file", "duplicate", "close", "both", "here"}
  BY DEF Redirection
<1>2. \A x : x \notin Targets(op) => (x \in DOMAIN u <=> x \in DOMAIN t) /\ (x \in DOMAIN t => u[x] = t[x])
  BY DEF Gives, SameAt
<1>3. ASSUME op.type # "close",
             DOMAIN s = DOMAIN seen \cup Targets(op),
             \A x \in DOMAIN seen : x \notin Targets(op) => s[x] = seen[x],
             \A x \in Targets(op) : s[x] = u[x].file
      PROVE  Agrees(u, s, hidden \ Targets(op))
  <2>1. \A x \in Targets(op) : x \in DOMAIN u
    BY <1>3 DEF Gives
  <2> HIDE DEF s
  <2> QED BY <1>2, <1>3, <2>1 DEF Agrees
<1>4. CASE op.type = "file"
  <2>1. s = With(seen, op.fd, op.file) /\ Targets(op) = {op.fd} /\ u[op.fd].file = op.file
    BY <1>4 DEF After, Targets, Gives
  <2> HIDE DEF s
  <2>2. DOMAIN s = DOMAIN seen \cup Targets(op) /\ s[op.fd] = op.file
        /\ \A x \in DOMAIN seen : x \notin Targets(op) => s[x] = seen[x]
    BY <2>1 DEF With
  <2> QED BY <1>3, <1>4, <2>1, <2>2 DEF s
<1>5. CASE op.type = "here"
  <2>1. s = With(seen, Stdin, Here) /\ Targets(op) = {Stdin} /\ u[Stdin].file = Here
    BY <1>5 DEF After, Targets, Gives
  <2> HIDE DEF s
  <2>2. DOMAIN s = DOMAIN seen \cup Targets(op) /\ s[Stdin] = Here
        /\ \A x \in DOMAIN seen : x \notin Targets(op) => s[x] = seen[x]
    BY <2>1 DEF With
  <2> QED BY <1>3, <1>5, <2>1, <2>2 DEF s
<1>6. CASE op.type = "both"
  <2>1. s = With(With(seen, Stdout, op.file), Stderr, op.file) /\ Targets(op) = {Stdout, Stderr}
        /\ u[Stdout].file = op.file /\ u[Stderr].file = op.file
    BY <1>6 DEF After, Targets, Gives
  <2> HIDE DEF s
  <2>2. DOMAIN s = DOMAIN seen \cup Targets(op) /\ s[Stdout] = op.file /\ s[Stderr] = op.file
        /\ \A x \in DOMAIN seen : x \notin Targets(op) => s[x] = seen[x]
    BY <2>1 DEF With
  <2> QED BY <1>3, <1>6, <2>1, <2>2 DEF s
<1>7. CASE op.type = "duplicate"
  <2>1. Targets(op) = {op.fd} /\ op.from \in DOMAIN t /\ u[op.fd].file = t[op.from].file
    BY <1>7 DEF Targets, Gives
  <2>2. op.from \in DOMAIN seen /\ seen[op.from] = t[op.from].file
    BY <1>7, <2>1 DEF Agrees
  <2>3. s = With(seen, op.fd, seen[op.from])
    BY <1>7, <2>2 DEF After
  <2> HIDE DEF s
  <2>4. DOMAIN s = DOMAIN seen \cup Targets(op) /\ s[op.fd] = seen[op.from]
        /\ \A x \in DOMAIN seen : x \notin Targets(op) => s[x] = seen[x]
    BY <2>1, <2>3 DEF With
  <2> QED BY <1>3, <1>7, <2>1, <2>2, <2>4 DEF s
<1>8. CASE op.type = "close"
  <2>1. s = Without(seen, op.fd) /\ Targets(op) = {op.fd} /\ op.fd \notin DOMAIN u
    BY <1>8 DEF After, Targets, Gives
  <2> HIDE DEF s
  <2>2. DOMAIN s = DOMAIN seen \ {op.fd} /\ \A x \in DOMAIN s : s[x] = seen[x]
    BY <2>1 DEF Without
  <2>3. Agrees(u, s, hidden \ Targets(op))
    BY <1>2, <2>1, <2>2 DEF Agrees
  <2> QED BY <2>3 DEF s
<1> QED BY <1>1, <1>4, <1>5, <1>6, <1>7, <1>8

-----------------------------------------------------------------------------
\* What the shell hides from scripts is out of the way of the redirections of a command.
LEMMA HiddenAside ==
    ASSUME Inv, frames # <<>>, NEW i \in DOMAIN Top.ops
    PROVE  /\ Top.ops[i].type = "duplicate" => Top.ops[i].from \notin AllBackups
           /\ Targets(Top.ops[i]) \cap (AllBackups \cup {terminal}) = {}
<1> DEFINE op == Top.ops[i]
<1>1. /\ Len(frames) \in Nat \ {0} /\ Len(frames) \in 1 .. Len(frames)
      /\ Top = frames[Len(frames)] /\ Top \in FrameType
  BY TopIs
<1>2. Top.ops \in OpLists(Anywhere \cup Alone)
  BY <1>1 DEF FrameType
<1>3. Targets(op) \subseteq Preserved(Top)
  BY DEF Preserved, Redirected
<1>4. Preserved(Top) \cap (AllBackups \cup {terminal}) = {}
  BY OutOfReach DEF Owned, AllBackups
<1>5. ASSUME NEW j \in DOMAIN frames, NEW b \in Backups(frames[j]) PROVE op.from # b
  <2>0. j \in 1 .. Len(frames) /\ frames[j] \in FrameType
    BY DEF Inv, Typed
  <2>1. b \in FD /\ b # NoFd /\ b >= LeastBackup(frames[j].ops)
    BY <1>5, <2>0, BackupsAre DEF Inv, Kept, Backups
  <2>2. LeastBackup(frames[j].ops) \in Nat /\ LeastBackup(frames[j].ops) > LastDigit
    BY <2>0, CommandFds DEF FrameType
  <2>3. CASE j = Len(frames)
    <3>1. op.from = NoFd \/ op.from \in Named(Top.ops)
      BY DEF Named
    <3>2. \A x \in Named(Top.ops) : x < LeastBackup(Top.ops)
      BY <1>2, CommandFds
    <3>3. LeastBackup(frames[j].ops) = LeastBackup(Top.ops)
      BY <1>1, <2>3
    <3>4. b \in Nat
      BY <2>1, LimitAssumption DEF FD
    <3>5. ASSUME op.from = b PROVE FALSE
      <4>1. b \in Named(Top.ops)
        BY <2>1, <3>1, <3>5
      <4>2. b < LeastBackup(Top.ops)
        BY <3>2, <4>1
      <4> QED BY <2>1, <2>2, <3>3, <3>4, <4>2
    <3> QED BY <3>5
  <2>4. CASE j # Len(frames)
    <3>1. Len(frames) > 1
      BY <1>1, <2>0, <2>4
    <3>2. Top.ops \in OpLists(Anywhere)
      BY <1>1, <3>1 DEF Inv, Stacked
    <3>3. op \in Anywhere
      BY <3>2, OpListsAre
    <3>4. op.from = NoFd \/ op.from \in 0 .. LastDigit
      BY <3>3, OrdinaryAssumption
    <3>5. b \notin 0 .. LastDigit
      BY <2>1, <2>2, LimitAssumption DEF FD, LastDigit
    <3> QED BY <2>1, <3>4, <3>5
  <2> QED BY <2>3, <2>4
<1> QED BY <1>3, <1>4, <1>5 DEF AllBackups

\* What a command sees so far is what the redirections applied so far say.
AllMeant ==
    frames # <<>> /\ ~Top.running =>
        Agrees(table, Seen(Visible(Top.entry, AllBackups), Top.ops)[Top.applied], AllBackups)

LEMMA NothingApplied ==
    ASSUME NEW t, NEW entry, NEW ops \in OpLists(Anywhere \cup Alone), NEW hidden,
           \A x : x \notin hidden => SameAt(t, entry, x)
    PROVE  Agrees(t, Seen(Visible(entry, hidden), ops)[0], hidden)
<1> DEFINE view == Visible(entry, hidden)
<1>1. Len(ops) \in Nat
  BY OpListsAre
<1>2. Seen(view, ops)[0] = view
  BY <1>1, SeenIs
<1>3. DOMAIN view = DOMAIN entry \ hidden /\ \A x \in DOMAIN view : view[x] = entry[x].file
  BY DEF Visible
<1> HIDE DEF view
<1>4. Agrees(t, view, hidden)
  BY <1>3 DEF Agrees, SameAt
<1> QED BY <1>2, <1>4 DEF view

\* A command below another runs its action.
LEMMA MeantBelow ==
    ASSUME Inv, frames # <<>>, frames' = Below
    PROVE  AllMeant'
<1>1. /\ Len(frames) \in Nat \ {0} /\ frames \in Seq(FrameType)
  BY TopIs DEF Inv, Typed
<1>2. /\ Below \in Seq(FrameType) /\ Len(Below) = Len(frames) - 1
      /\ \A i \in 1 .. Len(frames) - 1 : Below[i] = frames[i]
  BY <1>1, Unstack DEF Below
<1> HIDE DEF Below
<1>3. CASE Below = <<>>
  BY <1>3 DEF AllMeant
<1>4. CASE Below # <<>>
  <2>1. Len(Below) \in 1 .. Len(frames) /\ Len(Below) < Len(frames) /\ Len(Below) \in 1 .. Len(frames) - 1
    BY <1>1, <1>2, <1>4
  <2>2. Below[Len(Below)].running
    BY <1>2, <2>1 DEF Inv, Stacked, Resting
  <2>3. Top'.running
    BY <2>2 DEF Top
  <2> QED BY <2>3 DEF AllMeant
<1> QED BY <1>3, <1>4

LEMMA BeginMeant ==
    ASSUME Inv, Begin
    PROVE  AllMeant'
<1>1. PICK command \in Commands :
        IF terminal \in Preserved(command)
        THEN MoveTerminal(command)
        ELSE Enter(command, table) /\ UNCHANGED terminal
  BY DEF Begin
<1>2. PICK t : Enter(command, t)
  BY <1>1 DEF MoveTerminal
<1>3. PICK f : /\ frames' = Append(frames, f) /\ table' = t
               /\ f.ops = command.ops /\ f.applied = 0 /\ f.entry = t
  BY <1>2 DEF Enter
<1>4. command.ops \in OpLists(Anywhere \cup Alone)
  BY CommandsAre
<1>5. Len(frames) \in Nat /\ frames \in Seq(FrameType)
  BY DEF Inv, Typed
<1>6. Top' = f
  BY <1>3, <1>5 DEF Top
<1>7. Agrees(t, Seen(Visible(t, AllBackups'), command.ops)[0], AllBackups')
  BY <1>4, NothingApplied DEF SameAt
<1> QED BY <1>3, <1>6, <1>7 DEF AllMeant

LEMMA SaveMeant ==
    ASSUME Inv, Save
    PROVE  AllMeant'
<1> DEFINE fd == Lowest(Top.toSave)
           free == Free(table, LeastBackup(Top.ops))
           n == Len(frames)
<1>1. /\ frames # <<>> /\ Top.toSave # {} /\ terminal' = terminal
      /\ \/ fd \notin DOMAIN table /\ frames' = WithSaved(fd, NoFd, FALSE) /\ table' = table
         \/ /\ fd \in DOMAIN table /\ free # {}
            /\ frames' = WithSaved(fd, Lowest(free), table[fd].cloexec)
            /\ table' = Put(table, Lowest(free), table[fd].file, TRUE)
         \/ GiveUp
  BY DEF Save
<1>2. fd \notin DOMAIN Top.saved /\ \A x \in FD \ Backups(Top) : SameAt(table, Top.entry, x)
  BY <1>1, FdToSave
<1> HIDE DEF fd
<1>3. CASE GiveUp
  BY <1>1, <1>3, MeantBelow DEF GiveUp
<1>4. ASSUME NEW backup, NEW cloexec, NEW t \in Tables, frames' = WithSaved(fd, backup, cloexec), table' = t,
             \A x : x # backup \/ backup = NoFd => SameAt(t, table, x)
      PROVE  AllMeant'
  <2> DEFINE s == [x \in DOMAIN Top.saved \cup {fd} |->
                     IF x = fd THEN [backup |-> backup, cloexec |-> cloexec] ELSE Top.saved[x]]
             g == [Top EXCEPT !.toSave = Top.toSave \ {fd}, !.saved = s]
             gs == [frames EXCEPT ![n] = g]
  <2>1. frames' = gs
    BY <1>4 DEF WithSaved
  <2>2. n \in DOMAIN frames /\ Top = frames[n] /\ Top \in FrameType /\ frames \in Seq(FrameType)
        /\ Len(frames) \in Nat /\ n \in 1 .. Len(frames) /\ Top.entry \in Tables
    BY <1>1, TopIs DEF Inv, Typed
  <2>3. g.saved = s /\ g.ops = Top.ops /\ g.entry = Top.entry /\ g.applied = Top.applied
    BY <2>2 DEF FrameType
  <2>4. DOMAIN s = DOMAIN Top.saved \cup {fd} /\ s[fd].backup = backup
        /\ \A x \in DOMAIN Top.saved : x # fd /\ s[x] = Top.saved[x]
    BY <1>2
  <2> HIDE DEF s
  <2>5. /\ DOMAIN gs = DOMAIN frames /\ gs[n] = g /\ Len(gs) = n
    BY <2>2
  <2> HIDE DEF gs, g
  <2>6. Backups(g) = Backups(Top) \cup ({backup} \ {NoFd})
    BY <2>3, <2>4 DEF Backups
  <2>7. Backups(g) \subseteq AllBackups'
    <3>1. AllBackups' = UNION {Backups(gs[i]) : i \in DOMAIN gs}
      BY <2>1 DEF AllBackups
    <3> QED BY <2>2, <2>5, <3>1
  <2>8. ASSUME NEW x, x \notin AllBackups' PROVE SameAt(t, Top.entry, x)
    <3>1. x \notin Backups(Top) /\ (x # backup \/ backup = NoFd)
      BY <2>6, <2>7, <2>8
    <3>2. SameAt(t, table, x)
      BY <1>4, <3>1
    <3>3. x \in FD => SameAt(table, Top.entry, x)
      BY <1>2, <3>1
    <3>4. x \notin FD => x \notin DOMAIN t /\ x \notin DOMAIN Top.entry
      BY <1>4, <2>2, TablesAre
    <3> QED BY <3>2, <3>3, <3>4 DEF SameAt
  <2>9. Top.applied = 0 /\ Top.ops \in OpLists(Anywhere \cup Alone)
    <3>1. ~(Top.applied > 0) /\ Top.applied \in Nat
      BY <1>1, <2>2 DEF Inv, Stacked, FrameType
    <3> QED BY <2>2, <3>1 DEF FrameType
  <2>10. Agrees(t, Seen(Visible(Top.entry, AllBackups'), Top.ops)[0], AllBackups')
    BY <2>8, <2>9, NothingApplied
  <2>11. Top' = g
    BY <2>1, <2>5 DEF Top
  <2> QED BY <1>4, <2>3, <2>9, <2>10, <2>11 DEF AllMeant
<1>5. CASE fd \notin DOMAIN table /\ frames' = WithSaved(fd, NoFd, FALSE) /\ table' = table
  <2>1. table \in Tables /\ \A x : SameAt(table, table, x)
    BY DEF Inv, Typed, SameAt
  <2> QED BY <1>4, <1>5, <2>1
<1>6. CASE /\ fd \in DOMAIN table /\ free # {}
           /\ frames' = WithSaved(fd, Lowest(free), table[fd].cloexec)
           /\ table' = Put(table, Lowest(free), table[fd].file, TRUE)
  <2> DEFINE b == Lowest(free)
             t == Put(table, b, table[fd].file, TRUE)
  <2>1. b \in FD \ DOMAIN table
    BY <1>6, LowestFree
  <2>2. table \in Tables /\ table[fd].file \in Files
    BY <1>6 DEF Inv, Typed, Tables
  <2>3. b # NoFd
    BY <2>1, LimitAssumption DEF FD, NoFd
  <2> HIDE DEF b
  <2>4. t \in Tables /\ \A x : x # b => SameAt(t, table, x)
    BY <2>1, <2>2, PutTable
  <2>5. table' = t /\ frames' = WithSaved(fd, b, table[fd].cloexec)
    BY <1>6 DEF b
  <2> HIDE DEF t
  <2> QED BY <1>4, <2>3, <2>4, <2>5
<1> QED BY <1>1, <1>3, <1>5, <1>6

LEMMA ApplyNextMeant ==
    ASSUME Inv, AllApplied, AllMeant, ApplyNext
    PROVE  AllMeant'
<1> DEFINE k == Top.applied + 1
           op == Top.ops[k]
           r == Apply(table, op)
           g == [Top EXCEPT !.applied = @ + 1]
           view == Visible(Top.entry, AllBackups)
<1>1. /\ frames # <<>> /\ Top.applied < Len(Top.ops)
      /\ IF r.ok
         THEN /\ table' = r.table
              /\ frames' = [frames EXCEPT ![Len(frames)].applied = @ + 1]
         ELSE Leave(r.table)
  BY DEF ApplyNext
<1>2. /\ Top \in FrameType /\ Top = frames[Len(frames)] /\ Len(frames) \in 1 .. Len(frames)
      /\ frames \in Seq(FrameType) /\ table \in Tables
  BY <1>1, TopIs DEF Inv, Typed
<1>3. Top.applied \in Nat /\ DOMAIN Top.ops = 1 .. Len(Top.ops) /\ Len(Top.ops) \in Nat
  BY <1>1, <1>2, TopNames, OpListsAre DEF FrameType
<1>4. k \in DOMAIN Top.ops /\ k \in 1 .. Len(Top.ops) /\ k - 1 = Top.applied
  BY <1>1, <1>3
<1>5. op \in Redirection
  BY <1>1, <1>4, TopNames
<1>6. (op.type = "duplicate" => op.from \notin AllBackups) /\ AllBackups \ Targets(op) = AllBackups
  BY <1>1, <1>4, HiddenAside
<1>7. ~Top.running
  BY <1>1, <1>2, <1>3 DEF AllApplied
<1>8. Agrees(table, Seen(view, Top.ops)[k - 1], AllBackups)
  BY <1>1, <1>4, <1>7 DEF AllMeant
<1>9. Seen(view, Top.ops)[k] = After(Seen(view, Top.ops)[k - 1], op)
  BY <1>3, <1>4, SeenIs
<1>10. CASE r.ok
  <2> HIDE DEF op, view, k
  <2>1. Gives(table, r.table, op)
    BY <1>2, <1>5, <1>10, ApplyGives
  <2> HIDE DEF r
  <2>2. Agrees(r.table, After(Seen(view, Top.ops)[k - 1], op), AllBackups \ Targets(op))
    BY <1>2, <1>5, <1>6, <1>8, <2>1, AfterAgrees
  <2>3. Agrees(r.table, Seen(view, Top.ops)[k], AllBackups)
    BY <1>6, <1>9, <2>2
  <2>4. g.saved = Top.saved /\ g.ops = Top.ops /\ g.entry = Top.entry /\ g.applied = k
    BY <1>2 DEF FrameType, k
  <2> DEFINE gs == [frames EXCEPT ![Len(frames)] = g]
  <2>5. frames' = gs /\ table' = r.table
    BY <1>1, <1>2, <1>10
  <2> HIDE DEF g
  <2>6. /\ DOMAIN gs = DOMAIN frames /\ gs[Len(frames)] = g /\ Len(gs) = Len(frames)
        /\ \A i \in DOMAIN frames : i # Len(frames) => gs[i] = frames[i]
    BY <1>2
  <2> HIDE DEF gs
  <2>7. \A i \in DOMAIN frames : gs[i].saved = frames[i].saved
    BY <1>2, <2>4, <2>6
  <2>8. \A i \in DOMAIN frames : Backups(gs[i]) = Backups(frames[i])
    BY <2>7 DEF Backups
  <2>9. AllBackups' = AllBackups
    <3>1. AllBackups' = UNION {Backups(gs[i]) : i \in DOMAIN gs}
      BY <2>5 DEF AllBackups
    <3> QED BY <2>6, <2>8, <3>1 DEF AllBackups
  <2>10. Top' = g
    BY <2>5, <2>6 DEF Top
  <2> QED BY <2>3, <2>4, <2>5, <2>9, <2>10 DEF AllMeant, view
<1>11. CASE ~r.ok
  BY <1>1, <1>11, MeantBelow DEF Leave
<1> QED BY <1>10, <1>11

LEMMA StepMeant ==
    ASSUME Inv, AllApplied, AllMeant, [Next]_vars
    PROVE  AllMeant'
<1>1. CASE Begin
  BY <1>1, BeginMeant
<1>2. CASE Save
  BY <1>2, SaveMeant
<1>3. CASE ApplyNext
  BY <1>3, ApplyNextMeant
<1>4. CASE RunAction
  <2>1. frames # <<>> /\ frames' = [frames EXCEPT ![Len(frames)].running = TRUE]
    BY <1>4 DEF RunAction
  <2>2. Top \in FrameType /\ Top = frames[Len(frames)] /\ Len(frames) \in 1 .. Len(frames) /\ frames \in Seq(FrameType)
    BY <2>1, TopIs DEF Inv, Typed
  <2> DEFINE g == [Top EXCEPT !.running = TRUE]
             gs == [frames EXCEPT ![Len(frames)] = g]
  <2>3. frames' = gs
    BY <2>1, <2>2
  <2>4. Top'.running
    <3>1. g.running
      BY <2>2 DEF FrameType
    <3> HIDE DEF g
    <3>2. gs[Len(gs)] = g
      BY <2>2
    <3> HIDE DEF gs
    <3> QED BY <2>3, <3>1, <3>2 DEF Top
  <2> QED BY <2>4 DEF AllMeant
<1>5. CASE Return
  BY <1>5, MeantBelow DEF Return, Leave
<1>6. ASSUME frames' = frames, frames # <<>> => Top.running PROVE AllMeant'
  BY <1>6 DEF AllMeant, Top
<1>7. CASE Launch
  BY <1>6, <1>7 DEF Launch, Ready
<1>8. CASE MakePipe \/ Fork \/ ForkFailure \/ Launched
  <2>1. Launching /\ frames' = frames
    BY <1>8 DEF MakePipe, Fork, ForkFailure, Launched
  <2> QED BY <1>6, <2>1, LaunchingIs DEF Resting
<1>9. CASE Ended \/ UNCHANGED vars
  <2>1. UNCHANGED <<table, frames>>
    BY <1>9 DEF Ended, vars
  <2> QED BY <2>1 DEF AllMeant, Top, AllBackups
<1> QED BY <1>1, <1>2, <1>3, <1>4, <1>5, <1>7, <1>8, <1>9 DEF Next

-----------------------------------------------------------------------------
\* Of a table, just these descriptors close on exec, and they are there.
ClosesOnly(t, own) == own \subseteq DOMAIN t /\ \A x \in DOMAIN t : t[x].cloexec <=> x \in own

\* Pipes that were left open may be anywhere but where here documents go.
Elsewhere == FD \ {Stdin}
AllNeat ==
    /\ Tidy(table, frames, terminal, Elsewhere)
    /\ HereDocs => Stdin \notin OpenEnds
    /\ terminal \in FD /\ terminal > Stderr

LEMMA NeatCloses ==
    ASSUME Inv, AllNeat
    PROVE  ClosesOnly(table, AllBackups \cup {terminal})
<1>1. \A x \in DOMAIN table : table[x].cloexec => x \in AllBackups \cup {terminal}
  BY DEF AllNeat, Tidy, Owned, AllBackups
<1>2. DOMAIN frames = 1 .. Len(frames)
  BY DEF Inv, Typed
<1>3. \A x \in AllBackups \cup {terminal} : x \in DOMAIN table /\ table[x].cloexec
  BY <1>2 DEF Inv, Kept, AllBackups
<1> QED BY <1>1, <1>3 DEF ClosesOnly

\* A table agrees with what redirections promise, once some ends of pipes are closed in it (u), and
\* what else is hidden closes on exec.
Delivers(t, view, ops, hidden, ends, u) ==
    /\ Agrees(t, Promised(view, ops), hidden \cup ends)
    /\ ClosesOnly(t, hidden \cup ({terminal} \ Redirected(ops)))
    /\ DOMAIN u = DOMAIN t \ ends
    /\ \A x \in DOMAIN u : u[x] = t[x]

LEMMA InheritsPromised ==
    ASSUME NEW t, NEW view, NEW ops, NEW hidden, NEW ends, NEW u,
           Delivers(t, view, ops, hidden, ends, u)
    PROVE  Inherited(u) = Expected(view, ops)
<1> DEFINE promised == Promised(view, ops)
           shown == DOMAIN promised \ ({terminal} \ Redirected(ops))
           passed == {x \in DOMAIN u : ~u[x].cloexec}
<1> HIDE DEF promised
<1>1. /\ Agrees(t, promised, hidden \cup ends)
      /\ ClosesOnly(t, hidden \cup ({terminal} \ Redirected(ops)))
      /\ DOMAIN u = DOMAIN t \ ends /\ \A x \in DOMAIN u : u[x] = t[x]
  BY DEF promised, Delivers
<1>2. passed = shown
  <2>1. \A x : x \in passed <=> x \in DOMAIN t /\ x \notin ends \cup hidden \cup ({terminal} \ Redirected(ops))
    BY <1>1 DEF ClosesOnly
  <2>2. \A x : x \in DOMAIN t /\ x \notin hidden \cup ends <=> x \in DOMAIN promised
    BY <1>1 DEF Agrees
  <2> HIDE DEF passed
  <2> QED BY <2>1, <2>2
<1>3. \A x \in passed : u[x].file = promised[x]
  <2>1. \A x \in passed : x \in DOMAIN promised /\ x \notin hidden \cup ends /\ x \in DOMAIN t /\ u[x] = t[x]
    BY <1>1, <1>2 DEF Agrees
  <2> QED BY <1>1, <2>1 DEF Agrees
<1>4. Inherited(u) = [x \in passed |-> u[x].file]
  BY DEF Inherited
<1>5. Expected(view, ops) = [x \in shown |-> promised[x]]
  BY DEF Expected, promised
<1> HIDE DEF passed, shown
<1> QED BY <1>2, <1>3, <1>4, <1>5

\* The first part of RedirectionsMean: a command in the shell's own process.
LEMMA CommandsMean ==
    ASSUME Inv, AllNeat, AllMeant, frames # <<>>, Top.applied = Len(Top.ops), ~Top.running
    PROVE  Inherited(table) = Expected(Visible(Top.entry, AllBackups), Top.ops)
<1> DEFINE view == Visible(Top.entry, AllBackups)
<1>1. Top.ops \in OpLists(Anywhere \cup Alone) /\ Len(Top.ops) \in Nat
  BY TopIs, OpListsAre DEF FrameType
<1>2. Promised(view, Top.ops) = Seen(view, Top.ops)[Top.applied]
  BY <1>1, SeenIs
<1>3. Agrees(table, Promised(view, Top.ops), AllBackups \cup {})
  BY <1>2 DEF AllMeant
<1>4. terminal \notin Redirected(Top.ops)
  BY OutOfReach DEF Owned, Preserved
<1>5. AllBackups \cup ({terminal} \ Redirected(Top.ops)) = AllBackups \cup {terminal}
  BY <1>4
<1>6. ClosesOnly(table, AllBackups \cup ({terminal} \ Redirected(Top.ops)))
  BY <1>5, NeatCloses
<1> HIDE DEF view
<1>7. Inherited(table) = Expected(view, Top.ops)
  <2>1. Delivers(table, view, Top.ops, AllBackups, {}, table)
    BY <1>3, <1>6 DEF Delivers
  <2> QED BY <2>1, InheritsPromised
<1> QED BY <1>7 DEF view

-----------------------------------------------------------------------------
\* Members of pipelines.

PipedFds(i, pipes) == (IF i > 1 THEN {Stdin} ELSE {}) \cup (IF i <= Len(pipes) THEN {Stdout} ELSE {})
View(i) ==
    LET pipes == pipeline.pipes
        view == Visible(table, AllBackups \cup Ends(pipes))
    IN  [x \in DOMAIN view \cup PipedFds(i, pipes) |->
            IF x \notin PipedFds(i, pipes) THEN view[x]
            ELSE IF x = Stdin THEN <<"read", i - 1>> ELSE <<"write", i>>]

\* The ends of the pipes are there while they are made and handed out.
EndsThere(t) ==
    \A k \in DOMAIN pipeline.pipes :
        /\ pipeline.pipes[k].read \in DOMAIN t /\ t[pipeline.pipes[k].read].file = <<"read", k>>
        /\ pipeline.pipes[k].write \in DOMAIN t /\ t[pipeline.pipes[k].write].file = <<"write", k>>

LEMMA WiredIs ==
    ASSUME NEW t \in Tables, NEW i \in Nat \ {0}, PipelineType(pipeline), i <= Len(pipeline.pipes) + 1,
           EndsThere(t), {Stdin, Stdout} \cap Ends(pipeline.pipes) = {}
    PROVE  /\ Wired(t, i) \in Tables
           /\ DOMAIN Wired(t, i) = DOMAIN t \cup PipedFds(i, pipeline.pipes)
           /\ \A x \in DOMAIN Wired(t, i) :
                IF x \in PipedFds(i, pipeline.pipes)
                THEN /\ ~Wired(t, i)[x].cloexec
                     /\ Wired(t, i)[x].file = IF x = Stdin THEN <<"read", i - 1>> ELSE <<"write", i>>
                ELSE Wired(t, i)[x] = t[x]
<1> DEFINE pipes == pipeline.pipes
           input == IF i > 1 THEN Dup2(t, pipes[i - 1].read, Stdin) ELSE t
           first == IF i > 1 THEN {Stdin} ELSE {}
           second == IF i <= Len(pipes) THEN {Stdout} ELSE {}
           w == Wired(t, i)
<1>1. pipes \in Seq(PipeType) /\ Len(pipes) \in Nat /\ DOMAIN pipes = 1 .. Len(pipes)
  BY DEF PipelineType
<1>2. Stdin \in FD /\ Stdout \in FD /\ Stdin # Stdout
  BY LimitAssumption DEF FD, Stdin, Stdout
<1>3. \A k \in DOMAIN pipes : pipes[k].read \in Ends(pipes) /\ pipes[k].write \in Ends(pipes)
  BY DEF Ends
<1>4. /\ input \in Tables
      /\ DOMAIN input = DOMAIN t \cup first
      /\ \A x \in DOMAIN input : IF x \in first
                                 THEN ~input[x].cloexec /\ input[x].file = <<"read", i - 1>>
                                 ELSE input[x] = t[x]
  <2>1. CASE i > 1
    <3> DEFINE r == pipes[i - 1].read
    <3>1. i - 1 \in DOMAIN pipes
      BY <1>1, <2>1
    <3>2. r \in DOMAIN t /\ t[r].file = <<"read", i - 1>> /\ r # Stdin
      BY <1>3, <3>1 DEF EndsThere
    <3> HIDE DEF r
    <3>3. Dup2(t, r, Stdin) \in Tables
      BY <1>2, <3>2, Dup2Table
    <3>4. Dup2(t, r, Stdin) = Put(t, Stdin, <<"read", i - 1>>, FALSE)
      BY <3>2 DEF Dup2
    <3>5. input = Put(t, Stdin, <<"read", i - 1>>, FALSE) /\ input \in Tables /\ first = {Stdin}
      BY <2>1, <3>3, <3>4 DEF r
    <3> HIDE DEF input, first
    <3>6. DOMAIN input = DOMAIN t \cup {Stdin} /\ input[Stdin] = [file |-> <<"read", i - 1>>, cloexec |-> FALSE]
          /\ \A x \in DOMAIN t : x # Stdin => input[x] = t[x]
      BY <3>5 DEF Put
    <3>7. ~input[Stdin].cloexec /\ input[Stdin].file = <<"read", i - 1>>
      BY <3>6
    <3> QED BY <3>5, <3>6, <3>7
  <2>2. CASE ~(i > 1)
    BY <2>2
  <2> QED BY <2>1, <2>2
<1>5. w = IF i <= Len(pipes) THEN Dup2(input, pipes[i].write, Stdout) ELSE input
  BY DEF Wired
<1> HIDE DEF input, w
<1>6. /\ w \in Tables
      /\ DOMAIN w = DOMAIN input \cup second
      /\ \A x \in DOMAIN w : IF x \in second
                             THEN ~w[x].cloexec /\ w[x].file = <<"write", i>>
                             ELSE w[x] = input[x]
  <2>1. CASE i <= Len(pipes)
    <3> DEFINE e == pipes[i].write
    <3>1. i \in DOMAIN pipes
      BY <1>1, <2>1
    <3>2. e \in DOMAIN t /\ t[e].file = <<"write", i>> /\ e # Stdin /\ e # Stdout
      BY <1>3, <3>1 DEF EndsThere
    <3> HIDE DEF e
    <3>3. e \in DOMAIN input /\ input[e].file = <<"write", i>>
      BY <1>4, <3>2
    <3>4. Dup2(input, e, Stdout) \in Tables
      BY <1>2, <1>4, <3>3, Dup2Table
    <3>5. Dup2(input, e, Stdout) = Put(input, Stdout, <<"write", i>>, FALSE)
      BY <3>2, <3>3 DEF Dup2
    <3>6. w = Put(input, Stdout, <<"write", i>>, FALSE) /\ w \in Tables /\ second = {Stdout}
      BY <1>5, <2>1, <3>4, <3>5 DEF e
    <3> HIDE DEF second
    <3>7. DOMAIN w = DOMAIN input \cup {Stdout} /\ w[Stdout] = [file |-> <<"write", i>>, cloexec |-> FALSE]
          /\ \A x \in DOMAIN input : x # Stdout => w[x] = input[x]
      BY <3>6 DEF Put
    <3>8. ~w[Stdout].cloexec /\ w[Stdout].file = <<"write", i>>
      BY <3>7
    <3> QED BY <3>6, <3>7, <3>8
  <2>2. CASE ~(i <= Len(pipes))
    BY <1>4, <1>5, <2>2
  <2> QED BY <2>1, <2>2
<1>7. /\ first \subseteq {Stdin} /\ second \subseteq {Stdout}
      /\ PipedFds(i, pipes) = first \cup second
  BY DEF PipedFds
<1> HIDE DEF first, second
<1>8. /\ w \in Tables
      /\ DOMAIN w = DOMAIN t \cup PipedFds(i, pipeline.pipes)
      /\ \A x \in DOMAIN w :
                IF x \in PipedFds(i, pipeline.pipes)
                THEN /\ ~w[x].cloexec
                     /\ w[x].file = IF x = Stdin THEN <<"read", i - 1>> ELSE <<"write", i>>
                ELSE w[x] = t[x]
  BY <1>2, <1>4, <1>6, <1>7
<1> QED BY <1>8 DEF w

\* No member names an end of a pipe or a backup, changes nothing by copying the shell's handle on
\* the terminal onto itself, and reads a here document only where standard input is open.
KeepsOff(op, i) ==
    LET ends == Ends(pipeline.pipes)
    IN  /\ Targets(op) \cap ends = {}
        /\ op.type = "duplicate" =>
              op.from \notin AllBackups \cup ends /\ ~(op.from = op.fd /\ op.fd = terminal)
        /\ op.type = "here" => i > 1 \/ Stdin \in DOMAIN table

MembersKeepOff ==
    Launching =>
        /\ {Stdin, Stdout} \cap Ends(pipeline.pipes) = {}
        /\ \A i \in DOMAIN pipeline.stages : \A n \in DOMAIN pipeline.stages[i] :
               KeepsOff(pipeline.stages[i][n], i)

LEMMA ViewIs ==
    ASSUME Inv, AllNeat, NEW i \in Nat \ {0}, i <= Len(pipeline.pipes) + 1,
           EndsThere(table), {Stdin, Stdout} \cap Ends(pipeline.pipes) = {}
    PROVE  /\ Wired(table, i) \in Tables
           /\ Agrees(Wired(table, i), View(i), (AllBackups \cup Ends(pipeline.pipes)) \ PipedFds(i, pipeline.pipes))
           /\ ClosesOnly(Wired(table, i), (AllBackups \cup {terminal}) \ PipedFds(i, pipeline.pipes))
           /\ i > 1 => Stdin \in DOMAIN Wired(table, i)
           /\ DOMAIN table \subseteq DOMAIN Wired(table, i)
<1> DEFINE piped == PipedFds(i, pipeline.pipes)
           hidden == AllBackups \cup Ends(pipeline.pipes)
           view == Visible(table, hidden)
           w == Wired(table, i)
           seen == View(i)
           file(x) == IF x = Stdin THEN <<"read", i - 1>> ELSE <<"write", i>>
<1>1. table \in Tables /\ PipelineType(pipeline)
  BY DEF Inv, Typed, PipelineType
<1>2. /\ w \in Tables /\ DOMAIN w = DOMAIN table \cup piped
      /\ \A x \in DOMAIN w : IF x \in piped THEN ~w[x].cloexec /\ w[x].file = file(x)
                             ELSE w[x] = table[x]
  BY <1>1, WiredIs
<1>3. DOMAIN view = DOMAIN table \ hidden /\ \A x \in DOMAIN view : view[x] = table[x].file
  BY DEF Visible
<1>4. DOMAIN seen = DOMAIN view \cup piped
      /\ \A x \in DOMAIN seen : seen[x] = IF x \notin piped THEN view[x] ELSE file(x)
  BY DEF View
<1>5. i > 1 => Stdin \in piped
  BY DEF PipedFds
<1>6. ClosesOnly(table, AllBackups \cup {terminal})
  BY NeatCloses
<1> HIDE DEF piped, hidden, view, w, seen, file
<1>7. Agrees(w, seen, hidden \ piped)
  BY <1>2, <1>3, <1>4 DEF Agrees
<1>8. ClosesOnly(w, (AllBackups \cup {terminal}) \ piped)
  <2> DEFINE own == AllBackups \cup {terminal}
  <2> HIDE DEF own
  <2>1. own \subseteq DOMAIN table /\ \A x \in DOMAIN table : table[x].cloexec <=> x \in own
    BY <1>6 DEF ClosesOnly, own
  <2>2. own \ piped \subseteq DOMAIN w
    BY <1>2, <2>1
  <2>3. ASSUME NEW x \in DOMAIN w PROVE w[x].cloexec <=> x \in own \ piped
    <3>1. CASE x \in piped
      BY <1>2, <3>1
    <3>2. CASE x \notin piped
      BY <1>2, <2>1, <3>2
    <3> QED BY <3>1, <3>2
  <2> QED BY <2>2, <2>3 DEF ClosesOnly, own
<1> QED BY <1>2, <1>5, <1>7, <1>8 DEF w, seen, hidden, piped

\* The second part of RedirectionsMean: a member of a pipeline, when it is forked.
LEMMA MembersMean ==
    ASSUME Inv, AllNeat, NEW i \in Nat \ {0}, i <= Len(pipeline.pipes) + 1,
           NEW ops \in Stages, \A n \in DOMAIN ops : KeepsOff(ops[n], i),
           EndsThere(table), {Stdin, Stdout} \cap Ends(pipeline.pipes) = {},
           ApplyOrdered(Wired(table, i), ops).ok
    PROVE  Inherited(CloseAll(ApplyOrdered(Wired(table, i), ops).table, pipeline.pipes)) = Expected(View(i), ops)
<1> DEFINE ends == Ends(pipeline.pipes)
           piped == PipedFds(i, pipeline.pipes)
           w == Wired(table, i)
           t == ApplyOrdered(w, ops).table
           hidden == (AllBackups \ piped) \ Redirected(ops)
           own == AllBackups \cup {terminal}
           u == CloseAll(t, pipeline.pipes)
<1>1. /\ w \in Tables
      /\ Agrees(w, View(i), (AllBackups \cup ends) \ piped)
      /\ ClosesOnly(w, own \ piped)
      /\ i > 1 \/ Stdin \in DOMAIN table => Stdin \in DOMAIN w
  BY ViewIs
<1>2. piped \subseteq {Stdin, Stdout} /\ piped \cap ends = {}
  BY DEF PipedFds
<1>3. terminal \notin piped
  BY <1>2, LimitAssumption DEF AllNeat, Stdin, Stdout, Stderr, FD
<1>4. DOMAIN u = DOMAIN t \ ends /\ \A x \in DOMAIN u : u[x] = t[x]
  BY DEF CloseAll, Drop
<1> HIDE DEF u
<1>5. Redirected(ops) \cap ends = {}
  BY DEF Redirected, KeepsOff
<1>6. /\ Agrees(t, Promised(View(i), ops), ((AllBackups \cup ends) \ piped) \ Redirected(ops))
      /\ ClosesOnly(t, (own \ piped) \ Redirected(ops))
  <2>1. CASE ops = <<>>
    <3>1. t = w
      BY <2>1, AtMostOne DEF Done
    <3>2. Len(ops) = 0 /\ Redirected(ops) = {}
      BY <2>1 DEF Redirected
    <3>3. Promised(View(i), ops) = View(i)
      BY <3>2, SeenIs
    <3> HIDE DEF t, w, own, piped, ends
    <3>4. /\ ((AllBackups \cup ends) \ piped) \ Redirected(ops) = (AllBackups \cup ends) \ piped
          /\ (own \ piped) \ Redirected(ops) = own \ piped
      BY <3>2
    <3> QED BY <1>1, <3>1, <3>3, <3>4
  <2>2. CASE ops # <<>>
    <3> DEFINE op == ops[1]
    <3>1. op \in OfMembers /\ 1 \in DOMAIN ops /\ ApplyOrdered(w, ops) = Apply(w, op)
      BY <2>2, AtMostOne
    <3>2. op \in Redirection
      BY <3>1, RedirectionsAssumption
    <3>3. Len(ops) = 1 /\ DOMAIN ops = {1}
      <4>1. ops \in [1 .. 1 -> OfMembers]
        BY <2>2 DEF Stages
      <4> QED BY <4>1
    <3>4. Redirected(ops) = Targets(op)
      BY <3>3 DEF Redirected
    <3>5. Promised(View(i), ops) = After(View(i), op)
      <4>1. Len(ops) \in Nat /\ 1 \in 1 .. Len(ops) /\ 1 - 1 = 0
        BY <3>3
      <4>2. /\ Seen(View(i), ops)[0] = View(i)
            /\ Seen(View(i), ops)[1] = After(Seen(View(i), ops)[1 - 1], ops[1])
            /\ Promised(View(i), ops) = Seen(View(i), ops)[Len(ops)]
        BY <4>1, SeenIs
      <4> QED BY <3>3, <4>1, <4>2
    <3>6. KeepsOff(op, i)
      BY <3>1
    <3> HIDE DEF op
    <3>7. Gives(w, t, op)
      BY <1>1, <3>1, <3>2, ApplyGives
    <3> HIDE DEF t, w
    <3>8. op.type = "duplicate" => op.from \notin (AllBackups \cup ends) \ piped
      BY <3>6 DEF KeepsOff
    <3>9. Agrees(t, After(View(i), op), ((AllBackups \cup ends) \ piped) \ Targets(op))
      BY <1>1, <3>2, <3>7, <3>8, AfterAgrees
    <3>10. ClosesOnly(t, (own \ piped) \ Targets(op))
      <4>1. own \ piped \subseteq DOMAIN w /\ \A x \in DOMAIN w : w[x].cloexec <=> x \in own \ piped
        BY <1>1 DEF ClosesOnly
      <4>2. \A x : x \notin Targets(op) => (x \in DOMAIN t <=> x \in DOMAIN w) /\ (x \in DOMAIN w => t[x] = w[x])
        BY <3>7 DEF Gives, SameAt
      <4>3. ASSUME NEW x \in Targets(op), x \in DOMAIN t PROVE ~t[x].cloexec
        <5>1. op.type # "close"
          BY <3>7, <4>3 DEF Gives, Targets
        <5>2. t[x].cloexec =>
              \/ op.type = "here" /\ Stdin \notin DOMAIN w
              \/ op.type = "duplicate" /\ op.from = op.fd /\ w[x].cloexec
          BY <3>7, <5>1 DEF Gives
        <5>3. ~(op.type = "here" /\ Stdin \notin DOMAIN w)
          BY <1>1, <3>6 DEF KeepsOff
        <5>4. ASSUME op.type = "duplicate", op.from = op.fd, w[x].cloexec PROVE FALSE
          <6>1. x = op.fd /\ op.from \in DOMAIN w
            BY <3>7, <5>4 DEF Targets, Gives
          <6>2. x \in own
            BY <4>1, <5>4, <6>1
          <6> QED BY <3>6, <5>4, <6>1, <6>2 DEF KeepsOff
        <5> QED BY <5>2, <5>3, <5>4
      <4> HIDE DEF own, piped
      <4>4. (own \ piped) \ Targets(op) \subseteq DOMAIN t
        BY <4>1, <4>2
      <4>5. ASSUME NEW x \in DOMAIN t PROVE t[x].cloexec <=> x \in (own \ piped) \ Targets(op)
        <5>1. CASE x \in Targets(op)
          BY <4>3, <5>1
        <5>2. CASE x \notin Targets(op)
          BY <4>1, <4>2, <5>2
        <5> QED BY <5>1, <5>2
      <4> QED BY <4>4, <4>5 DEF ClosesOnly
    <3> QED BY <3>4, <3>5, <3>9, <3>10
  <2> QED BY <2>1, <2>2
<1> HIDE DEF t, w, piped, ends
<1>7. ((AllBackups \cup ends) \ piped) \ Redirected(ops) = hidden \cup ends
  BY <1>2, <1>5
<1>8. (own \ piped) \ Redirected(ops) = hidden \cup ({terminal} \ Redirected(ops))
  BY <1>3
<1> HIDE DEF hidden, own
<1>9. Inherited(u) = Expected(View(i), ops)
  <2>1. Agrees(t, Promised(View(i), ops), hidden \cup ends)
    BY <1>6, <1>7
  <2>2. ClosesOnly(t, hidden \cup ({terminal} \ Redirected(ops)))
    BY <1>6, <1>8
  <2>3. Delivers(t, View(i), ops, hidden, ends, u)
    BY <1>4, <2>1, <2>2 DEF Delivers
  <2> QED BY <2>3, InheritsPromised
<1> QED BY <1>9 DEF u, t, w

-----------------------------------------------------------------------------
LEMMA StepNeat ==
    ASSUME Inv, AllApplied, ~(HereDocs /\ ClosesStdin), AllNeat, [Next]_vars
    PROVE  AllNeat'
<1>1. CASE Begin \/ Save \/ ApplyNext \/ RunAction \/ Return
  <2>1. Tidy(table', frames', terminal', Elsewhere)
    BY <1>1, ShellTidy DEF AllNeat
  <2>2. OpenEnds' = {}
    BY <1>1, ShellEnds DEF OpenEnds
  <2>3. terminal' \in FD /\ terminal' > Stderr
    <3>1. CASE terminal' = terminal
      BY <3>1 DEF AllNeat
    <3>2. CASE terminal' # terminal
      <4>1. PICK command \in Commands : MoveTerminal(command)
        BY <1>1, <3>2 DEF Begin, Save, ApplyNext, RunAction, Return
      <4>2. terminal' \in FD /\ terminal' >= LeastBackup(command.ops)
        BY <4>1, LowestFree DEF MoveTerminal
      <4>3. LeastBackup(command.ops) \in Nat /\ LeastBackup(command.ops) > LastDigit
        BY CommandsAre, CommandFds
      <4> QED BY <4>2, <4>3, LimitAssumption DEF FD, LastDigit, Stderr
    <3> QED BY <3>1, <3>2
  <2> QED BY <2>1, <2>2, <2>3 DEF AllNeat
<1>2. ASSUME UNCHANGED <<table, terminal, frames>>, OpenEnds' \subseteq OpenEnds PROVE AllNeat'
  BY <1>2 DEF AllNeat
<1>3. CASE Launch
  <2>1. Ends(pipeline'.pipes) = {}
    BY <1>3 DEF Launch, NoPipeline, Ends
  <2> QED BY <1>2, <1>3, <2>1 DEF Launch, OpenEnds
<1>4. CASE MakePipe
  <2>1. UNCHANGED <<terminal, frames>>
    BY <1>4 DEF MakePipe
  <2>2. CASE pipeline' = NoPipeline /\ table' = table
    <3>1. OpenEnds' = {}
      BY <2>2, NoPipelineIs DEF OpenEnds
    <3> QED BY <1>2, <2>1, <2>2, <3>1
  <2>3. ASSUME NEW read, NEW write, MakesEnds(read, write) PROVE AllNeat'
    <3>1. DOMAIN table' = DOMAIN table \cup {read, write} /\ {read, write} \subseteq FD
          /\ \A x \in DOMAIN table' : table'[x].cloexec => x \in DOMAIN table /\ table'[x] = table[x]
      BY <2>3 DEF MakesEnds
    <3>2. HereDocs => Stdin \notin {read, write}
      BY <2>3 DEF MakesEnds, AllNeat, Tidy
    <3>3. OpenEnds' = OpenEnds \cup {read, write}
      BY <2>3 DEF MakesEnds
    <3>4. FD \subseteq ScriptFds \cup Elsewhere
      <4>1. Stdin \in 0 .. Stderr
        BY DEF Stdin, Stderr
      <4> QED BY <4>1 DEF ScriptFds, Elsewhere
    <3>5. Tidy(table', frames, terminal, Elsewhere)
      BY <3>1, <3>2, <3>4 DEF Tidy, AllNeat
    <3> QED BY <2>1, <3>2, <3>3, <3>5 DEF AllNeat
  <2> QED BY <1>4, <2>2, <2>3, PipeMade
<1>5. CASE Fork
  <2>1. PipelineType(pipeline) /\ \E members : pipeline' = [pipeline EXCEPT !.members = members]
    BY <1>5, LaunchingIs DEF Fork
  <2> QED BY <1>2, <1>5, <2>1 DEF Fork, OpenEnds, PipelineType
<1>6. CASE ForkFailure \/ Ended
  <2>1. pipeline' = NoPipeline /\ UNCHANGED <<table, terminal, frames>>
    BY <1>6 DEF ForkFailure, Ended
  <2>2. OpenEnds' = {}
    BY <2>1, NoPipelineIs DEF OpenEnds
  <2> QED BY <1>2, <2>1, <2>2
<1>7. CASE Launched
  <2> DEFINE t == Drop(table, Ends(pipeline.pipes))
  <2>1. /\ Launching /\ UNCHANGED <<terminal, frames>> /\ table' = t
        /\ pipeline' = [pipeline EXCEPT !.launched = TRUE]
    BY <1>7 DEF Launched
  <2>2. PipelineType(pipeline) /\ OpenEnds = Ends(pipeline.pipes)
    BY <2>1, LaunchingIs DEF OpenEnds, Launching
  <2>3. OpenEnds' = {}
    BY <2>1, <2>2 DEF OpenEnds, PipelineType
  <2>4. DOMAIN t = DOMAIN table \ OpenEnds /\ \A x \in DOMAIN t : t[x] = table[x]
    BY <2>2 DEF Drop
  <2> HIDE DEF t
  <2>5. Tidy(t, frames, terminal, Elsewhere)
    BY <2>4 DEF Tidy, AllNeat
  <2> QED BY <2>1, <2>3, <2>5 DEF AllNeat
<1>8. CASE UNCHANGED vars
  BY <1>2, <1>8 DEF vars, OpenEnds
<1> QED BY <1>1, <1>3, <1>4, <1>5, <1>6, <1>7, <1>8 DEF Next

LEMMA InitNeat == Init => AllNeat
<1> SUFFICES ASSUME Init PROVE AllNeat
  OBVIOUS
<1>1. /\ table = [x \in 0 .. 3 |-> [file |-> <<"terminal", x>>, cloexec |-> x = 3]]
      /\ terminal = 3 /\ frames = <<>> /\ pipeline = NoPipeline
  BY DEF Init
<1>2. OpenEnds = {}
  BY <1>1, NoPipelineIs DEF OpenEnds
<1>3. Tidy(table, frames, terminal, OpenEnds)
  BY InitTidy DEF AllTidy
<1>4. Tidy(table, frames, terminal, Elsewhere)
  BY <1>2, <1>3 DEF Tidy, Elsewhere
<1> QED BY <1>1, <1>2, <1>4, LimitAssumption DEF AllNeat, FD, Stderr

\* The pipeline while it is launched: its pipes are all made before its first member.
Laid ==
    /\ pipeline.stages \in Seq(Stages)
    /\ pipeline.members \in Seq([started : BOOLEAN, table : Tables])
    /\ ~pipeline.launched => EndsThere(table)
    /\ pipeline.members # <<>> => PipesMade

\* Members find what their redirections say.
AllDelivered ==
    \A i \in DOMAIN pipeline.members :
        pipeline.members[i].started =>
            Inherited(pipeline.members[i].table) = Expected(View(i), pipeline.stages[i])

LEMMA NoneLaid == ASSUME pipeline = NoPipeline PROVE Laid /\ AllDelivered
<1>1. pipeline.stages = <<>> /\ pipeline.members = <<>> /\ pipeline.pipes = <<>>
  BY NoPipelineWired
<1> QED BY <1>1 DEF Laid, AllDelivered, EndsThere

LEMMA ForkLaid ==
    ASSUME Inv, AllNeat, Laid, AllDelivered, MembersKeepOff, Fork
    PROVE  Laid' /\ AllDelivered'
<1> DEFINE i == Len(pipeline.members) + 1
           ops == pipeline.stages[i]
           w == Wired(table, i)
           r == ApplyOrdered(w, ops)
           child == [started |-> r.ok, table |-> CloseAll(r.table, pipeline.pipes)]
           members == Append(pipeline.members, child)
<1>1. /\ Launching /\ ~pipeline.launched /\ PipesMade /\ Len(pipeline.members) < Len(pipeline.stages)
      /\ UNCHANGED <<table, terminal, frames>>
      /\ pipeline' = [pipeline EXCEPT !.members = members]
  BY DEF Fork, Launching, Child
<1>2. PipelineType(pipeline) /\ table \in Tables
  BY LaunchingIs
<1>3. /\ pipeline.stages \in Seq(Stages) /\ EndsThere(table)
      /\ pipeline.members \in Seq([started : BOOLEAN, table : Tables]) /\ Len(pipeline.members) \in Nat
      /\ pipeline.pipes \in Seq(PipeType)
  BY <1>1, <1>2 DEF Laid, PipelineType
<1>4. i \in Nat \ {0} /\ i \in DOMAIN pipeline.stages /\ i <= Len(pipeline.pipes) + 1
  BY <1>1, <1>3 DEF PipesMade
<1>5. ops \in Stages
  BY <1>3, <1>4
<1>6. /\ {Stdin, Stdout} \cap Ends(pipeline.pipes) = {}
      /\ \A n \in DOMAIN ops : KeepsOff(ops[n], i)
  BY <1>1, <1>4 DEF MembersKeepOff
<1> HIDE DEF i, ops
<1>7. w \in Tables
  BY <1>3, <1>4, <1>6, ViewIs
<1>8. r.ok \in BOOLEAN /\ r.table \in Tables
  <2>1. CASE ops = <<>>
    <3>1. r = Done(w)
      BY <1>5, <2>1, AtMostOne
    <3>2. r.ok = TRUE /\ r.table = w
      BY <3>1 DEF Done
    <3> HIDE DEF r, w
    <3> QED BY <1>7, <3>2
  <2>2. CASE ops # <<>>
    <3>1. ops[1] \in Redirection /\ r = Apply(w, ops[1])
      BY <1>5, <2>2, AtMostOne, RedirectionsAssumption
    <3> HIDE DEF w
    <3>2. Apply(w, ops[1]).ok \in BOOLEAN /\ Apply(w, ops[1]).table \in Tables
      BY <1>7, <3>1, ApplyMakes, ApplyTable
    <3> HIDE DEF r
    <3> QED BY <3>1, <3>2
  <2> QED BY <2>1, <2>2
<1>9. child.started => Inherited(child.table) = Expected(View(i), ops)
  <2>1. r.ok => Inherited(CloseAll(r.table, pipeline.pipes)) = Expected(View(i), ops)
    BY <1>3, <1>4, <1>5, <1>6, MembersMean
  <2> HIDE DEF r
  <2> QED BY <2>1
<1> HIDE DEF r
<1>10. child \in [started : BOOLEAN, table : Tables]
  BY <1>8, DropTable DEF CloseAll
<1> HIDE DEF child
<1>11. /\ pipeline'.members = members /\ pipeline'.stages = pipeline.stages
       /\ pipeline'.pipes = pipeline.pipes /\ pipeline'.launched = pipeline.launched
  BY <1>1, <1>2 DEF PipelineType
<1>12. /\ members \in Seq([started : BOOLEAN, table : Tables])
       /\ \A j \in DOMAIN members : \/ j = i /\ members[j] = child
                                    \/ j \in DOMAIN pipeline.members /\ members[j] = pipeline.members[j]
  BY <1>3, <1>10 DEF i
<1> HIDE DEF members
<1>13. \A j : View(j)' = View(j)
  BY <1>1, <1>11 DEF View, AllBackups
<1>14. \A j, s : Expected(View(j), s)' = Expected(View(j), s)
  BY <1>1, <1>13 DEF Expected
<1>15. AllDelivered'
  <2> SUFFICES ASSUME NEW j \in DOMAIN members, members[j].started
               PROVE  Inherited(members[j].table) = Expected(View(j), pipeline.stages[j])
    BY <1>11, <1>14 DEF AllDelivered
  <2>1. CASE j = i /\ members[j] = child
    BY <1>9, <2>1 DEF ops
  <2>2. CASE j \in DOMAIN pipeline.members /\ members[j] = pipeline.members[j]
    BY <2>2 DEF AllDelivered
  <2> QED BY <1>12, <2>1, <2>2
<1>16. Laid'
  BY <1>1, <1>3, <1>11, <1>12 DEF Laid, EndsThere, PipesMade
<1> QED BY <1>15, <1>16

LEMMA LaunchedLaid ==
    ASSUME Inv, Laid, AllDelivered, Launched
    PROVE  Laid' /\ AllDelivered'
<1> DEFINE ends == Ends(pipeline.pipes)
           t == Drop(table, ends)
<1>1. /\ Launching /\ UNCHANGED <<terminal, frames>> /\ table' = t
      /\ pipeline' = [pipeline EXCEPT !.launched = TRUE]
  BY DEF Launched
<1>2. PipelineType(pipeline)
  BY LaunchingIs
<1>3. /\ pipeline'.launched = TRUE /\ pipeline'.stages = pipeline.stages
      /\ pipeline'.members = pipeline.members /\ pipeline'.pipes = pipeline.pipes
  BY <1>1, <1>2 DEF PipelineType
<1>4. AllBackups' = AllBackups
  BY <1>1 DEF AllBackups
<1>5. \A S : Visible(t, S \cup ends) = Visible(table, S \cup ends)
  <2> SUFFICES ASSUME NEW S PROVE Visible(t, S \cup ends) = Visible(table, S \cup ends)
    OBVIOUS
  <2>1. DOMAIN t \ (S \cup ends) = DOMAIN table \ (S \cup ends) /\ \A x \in DOMAIN t : t[x] = table[x]
    BY DEF Drop
  <2> HIDE DEF t
  <2> QED BY <2>1 DEF Visible
<1> HIDE DEF t
<1>6. \A j : View(j)' = View(j)
  BY <1>1, <1>3, <1>4, <1>5 DEF View
<1>7. \A j, s : Expected(View(j), s)' = Expected(View(j), s)
  BY <1>1, <1>6 DEF Expected
<1>8. AllDelivered'
  BY <1>3, <1>7 DEF AllDelivered
<1>9. Laid'
  BY <1>3 DEF Laid, PipesMade
<1> QED BY <1>8, <1>9

LEMMA StepLaid ==
    ASSUME Inv, AllApplied, AllNeat, Laid, AllDelivered, MembersKeepOff, [Next]_vars
    PROVE  Laid' /\ AllDelivered'
<1>1. ASSUME pipeline' = NoPipeline PROVE Laid' /\ AllDelivered'
  <2>1. pipeline'.stages = <<>> /\ pipeline'.members = <<>> /\ pipeline'.pipes = <<>>
    BY <1>1, NoPipelineWired
  <2> QED BY <2>1 DEF Laid, AllDelivered, EndsThere
<1>2. CASE Begin \/ Save \/ ApplyNext \/ RunAction \/ Return
  BY <1>1, <1>2, ShellEnds
<1>3. CASE Launch
  <2>1. PICK n \in 1 .. MaxMembers : \E stages \in [1 .. n -> {<<>>} \cup [1 .. 1 -> OfMembers]] :
            pipeline' = [NoPipeline EXCEPT !.stages = stages]
    BY <1>3 DEF Launch
  <2>2. PICK stages \in [1 .. n -> Stages] : pipeline' = [NoPipeline EXCEPT !.stages = stages]
    BY <2>1 DEF Stages
  <2>3. n \in Nat
    BY RedirectionsAssumption
  <2>4. stages \in Seq(Stages)
    BY <2>3
  <2>5. pipeline'.stages = stages /\ pipeline'.pipes = <<>> /\ pipeline'.members = <<>>
    BY <2>2 DEF NoPipeline
  <2> QED BY <2>4, <2>5 DEF Laid, AllDelivered, EndsThere
<1>4. CASE MakePipe
  <2>1. pipeline.members = <<>> /\ ~pipeline.launched
    BY <1>4 DEF MakePipe, Launching, Laid
  <2>2. ASSUME NEW read, NEW write, MakesEnds(read, write) PROVE Laid' /\ AllDelivered'
    <3> DEFINE k == Len(pipeline.pipes) + 1
    <3>1. /\ DOMAIN table' = DOMAIN table \cup {read, write} /\ \A x \in DOMAIN table : table'[x] = table[x]
          /\ DOMAIN pipeline'.pipes = DOMAIN pipeline.pipes \cup {k}
          /\ \A j \in DOMAIN pipeline.pipes : pipeline'.pipes[j] = pipeline.pipes[j]
          /\ pipeline'.pipes[k].read = read /\ pipeline'.pipes[k].write = write
          /\ table'[read].file = <<"read", k>> /\ table'[write].file = <<"write", k>>
          /\ pipeline'.stages = pipeline.stages /\ pipeline'.members = pipeline.members
      BY <2>2 DEF MakesEnds
    <3> HIDE DEF k
    <3>2. EndsThere(table)
      BY <2>1 DEF Laid
    <3>3. EndsThere(table)'
      BY <3>1, <3>2 DEF EndsThere
    <3> QED BY <2>1, <3>1, <3>3 DEF Laid, AllDelivered
  <2> QED BY <1>1, <1>4, <2>2, PipeMade
<1>5. CASE Fork
  BY <1>5, ForkLaid
<1>6. CASE ForkFailure \/ Ended
  BY <1>1, <1>6 DEF ForkFailure, Ended
<1>7. CASE Launched
  BY <1>7, LaunchedLaid
<1>8. CASE UNCHANGED vars
  <2>1. UNCHANGED <<table, terminal, frames, pipeline>>
    BY <1>8 DEF vars
  <2>2. \A j : View(j)' = View(j)
    BY <2>1 DEF View, AllBackups
  <2>3. \A j, s : Expected(View(j), s)' = Expected(View(j), s)
    BY <2>1, <2>2 DEF Expected
  <2>4. Laid'
    BY <2>1 DEF Laid, EndsThere, PipesMade
  <2> QED BY <2>1, <2>3, <2>4 DEF AllDelivered
<1> QED BY <1>2, <1>3, <1>4, <1>5, <1>6, <1>7, <1>8 DEF Next

\* What redirections mean, for any instance, for commands with any number of redirections and any
\* nesting of commands: as long as members of pipelines keep off the descriptors that pipes and
\* backups happen to have, and here documents are not read where standard input may be closed,
\* everyone finds behind their descriptors what their redirections say, in the order written, over
\* what the caller had (apply_ordered_redirections, run_with_command_redirections and
\* execute_pipeline).  Forks and pipes may fail on the way.  What members must keep off is real: the
\* code picks pipes without regard to the numbers that members name.
THEOREM RedirectionsMeanTheorem ==
    ASSUME ~(HereDocs /\ ClosesStdin)
    PROVE  Spec /\ []MembersKeepOff => []RedirectionsMean
<1>1. Inv /\ AllApplied /\ AllNeat /\ AllMeant /\ Laid /\ AllDelivered /\ MembersKeepOff /\ [Next]_vars
        => AllApplied' /\ AllNeat' /\ AllMeant' /\ Laid' /\ AllDelivered'
  BY StepApplied, StepNeat, StepMeant, StepLaid
<1>2. Init => AllApplied /\ AllMeant /\ Laid /\ AllDelivered
  <2>1. Init => AllApplied /\ AllMeant
    BY DEF Init, AllApplied, AllMeant
  <2>2. Init => Laid /\ AllDelivered
    BY NoneLaid DEF Init
  <2> QED BY <2>1, <2>2
<1>3. Inv /\ AllNeat /\ AllMeant /\ AllDelivered => RedirectionsMean
  <2>1. Inv /\ AllNeat /\ AllMeant /\ frames # <<>> /\ Top.toSave = {} /\ Top.applied = Len(Top.ops) /\ ~Top.running =>
            Inherited(table) = Expected(Visible(Top.entry, AllBackups), Top.ops)
    BY CommandsMean
  <2> QED BY <2>1 DEF RedirectionsMean, AllDelivered, View, PipedFds
<1> QED BY InitNeat, Invariance, <1>1, <1>2, <1>3, PTL DEF Spec
=============================================================================
