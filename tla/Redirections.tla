----------------------------- MODULE Redirections -----------------------------
(***************************************************************************)
(* Redirections that the shell makes in its own process, and the ones its  *)
(* children make in theirs (src/cjsh-core/src/exec/exec.cpp).              *)
(*                                                                         *)
(* A builtin, a function or a compound command with redirections runs      *)
(* between a saving and a restoring of the descriptors it may change       *)
(* (run_with_command_redirections); its action may run other such          *)
(* commands, so the saved descriptors form a stack.  The backups live in   *)
(* the table they protect, next to the shell's handle on its terminal.     *)
(* External commands and pipelines work on copies of that table.           *)
(***************************************************************************)
EXTENDS Descriptors

CONSTANTS
    Anywhere,      \* redirections that any command may have
    Alone,         \* redirections of an unnested leaf builtin or bare exec
    OfMembers,     \* redirections of the members of a pipeline
    MaxOps,        \* redirections of one command
    MaxDepth,      \* commands inside each other
    MaxMembers,    \* members of a pipeline
    FailingForks   \* the lengths of the pipelines whose forks may fail

LastDigit == 9     \* run_with_command_redirections: int highest_fd = 9

ASSUME RedirectionsAssumption ==
    /\ Anywhere \cup Alone \cup OfMembers \subseteq Redirection
    /\ Alone \cap Anywhere = {}
    /\ {MaxOps, MaxDepth, MaxMembers} \subseteq Nat
    /\ FailingForks \subseteq Nat

\* Commands that run other commands name single digits only.
ASSUME OrdinaryAssumption ==
    \A op \in Anywhere : Targets(op) \cup ({op.from} \ {NoFd}) \subseteq 0 .. LastDigit

VARIABLES
    table,         \* the descriptors of the shell
    terminal,      \* Exec::shell_terminal, which it owns
    frames,        \* the redirected commands in progress, the innermost last
    pipeline       \* the external command or pipeline being launched or running

vars == <<table, terminal, frames, pipeline>>

(***************************************************************************)
(* A frame: its redirections and how many are applied, what is left to     *)
(* save and what is saved, and the table it was entered with.              *)
(***************************************************************************)
Kinds == {"leaf", "exec", "nesting"}

Top == frames[Len(frames)]
Below == SubSeq(frames, 1, Len(frames) - 1)

Backups(frame) == {frame.saved[x].backup : x \in DOMAIN frame.saved} \ {NoFd}
AllBackups == UNION {Backups(frames[i]) : i \in DOMAIN frames}

NoPipeline == [stages |-> <<>>, pipes |-> <<>>, members |-> <<>>, launched |-> FALSE]

Ends(pipes) == UNION {{pipes[k].read, pipes[k].write} : k \in DOMAIN pipes}

Init ==
    /\ table = [x \in 0 .. 3 |-> [file |-> <<"terminal", x>>, cloexec |-> x = 3]]
    /\ terminal = 3
    /\ frames = <<>>
    /\ pipeline = NoPipeline
-----------------------------------------------------------------------------
(* Commands with redirections in the shell's own process.                  *)

OpLists(ops) == UNION {[1 .. n -> ops] : n \in 1 .. MaxOps}

Commands ==
    [kind : Kinds, ops : OpLists(Anywhere)] \cup
    (IF frames = <<>> THEN [kind : {"leaf", "exec"}, ops : OpLists(Anywhere \cup Alone)] ELSE {})

\* execute_builtin_with_redirections: only leaf builtins leave the standard
\* descriptors they do not redirect unsaved.
Preserved(command) ==
    Redirected(command.ops) \cup
        (IF command.kind = "leaf" THEN {} ELSE {Stdin, Stdout, Stderr})

\* The least descriptor a backup may have.
LeastBackup(ops) == 1 + Highest({LastDigit} \cup Named(ops))

\* The next command of the line, or of the action of the innermost frame.
Ready ==
    /\ pipeline = NoPipeline
    /\ frames # <<>> => /\ Top.kind = "nesting" /\ Top.running

Enter(command, t) ==
    /\ table' = t
    /\ frames' = Append(frames,
            [kind |-> command.kind, ops |-> command.ops, applied |-> 0,
             toSave |-> Preserved(command), saved |-> [x \in {} |-> NoFd], entry |-> t, running |-> FALSE])

\* The handle on the terminal goes out of the way for good.
MoveTerminal(command) ==
    LET free == Free(table, LeastBackup(command.ops))
    IN  /\ free # {}
        /\ terminal' = Lowest(free)
        /\ Enter(command, Put(Drop(table, {terminal}), Lowest(free), table[terminal].file, TRUE))

Begin ==
    /\ Ready
    /\ Len(frames) < MaxDepth
    /\ \E command \in Commands :
        IF terminal \in Preserved(command)
        THEN MoveTerminal(command)
        ELSE Enter(command, table) /\ UNCHANGED terminal
    /\ UNCHANGED pipeline

\* A plausible bug: the early return leaves the backups behind.
GiveUpLeaking == table' = table /\ frames' = Below

\* close_backups: what the frame has saved so far is given up.
GiveUp ==
    /\ table' = Drop(table, Backups(Top))
    /\ frames' = Below

\* The frames once fd is saved; a closed one is saved as such.
WithSaved(fd, backup, cloexec) ==
    [frames EXCEPT ![Len(frames)] =
        [Top EXCEPT !.toSave = @ \ {fd},
                    !.saved = [x \in DOMAIN @ \cup {fd} |->
                        IF x = fd THEN [backup |-> backup, cloexec |-> cloexec] ELSE @[x]]]]

\* One turn of the loop that saves descriptors, the lowest first.
Save ==
    /\ frames # <<>>
    /\ Top.toSave # {}
    /\ LET fd == Lowest(Top.toSave)
           free == Free(table, LeastBackup(Top.ops))
       IN  \/ /\ fd \notin DOMAIN table
              /\ frames' = WithSaved(fd, NoFd, FALSE)
              /\ UNCHANGED table
           \/ /\ fd \in DOMAIN table
              /\ free # {}
              /\ frames' = WithSaved(fd, Lowest(free), table[fd].cloexec)
              /\ table' = Put(table, Lowest(free), table[fd].file, TRUE)
           \/ /\ fd \in DOMAIN table
              /\ free = {}
              /\ GiveUp
    /\ UNCHANGED <<terminal, pipeline>>

\* A plausible bug: what was closed is left as the command made it.
PutBackOpen(t, saved) ==
    LET live == {x \in DOMAIN saved : saved[x].backup \in DOMAIN t}
    IN  [x \in DOMAIN t \cup live |->
            IF x \in live THEN [file |-> t[saved[x].backup].file, cloexec |-> saved[x].cloexec]
            ELSE t[x]]

\* restore_descriptors: every saved descriptor is put back with its flags, or
\* closed when it was closed; a backup that is gone restores nothing but the
\* flags.  Backups are above every descriptor of their frame, so the order of
\* the loop is immaterial.
PutBack(t, saved) ==
    LET closed == {x \in DOMAIN saved : saved[x].backup = NoFd}
        live == {x \in DOMAIN saved : saved[x].backup \in DOMAIN t}
    IN  [x \in (DOMAIN t \ closed) \cup live |->
            IF x \in live THEN [file |-> t[saved[x].backup].file, cloexec |-> saved[x].cloexec]
            ELSE IF x \in DOMAIN saved THEN [file |-> t[x].file, cloexec |-> saved[x].cloexec]
            ELSE t[x]]

Restored(t, frame) ==
    Drop(IF frame.kind = "exec" THEN t ELSE PutBack(t, frame.saved), Backups(frame))

Leave(t) ==
    /\ table' = Restored(t, Top)
    /\ frames' = Below

\* One turn of apply_ordered_redirections; a failure unwinds the command.
ApplyNext ==
    /\ frames # <<>>
    /\ Top.toSave = {}
    /\ Top.applied < Len(Top.ops)
    /\ LET result == Apply(table, Top.ops[Top.applied + 1])
       IN  IF result.ok
           THEN /\ table' = result.table
                /\ frames' = [frames EXCEPT ![Len(frames)].applied = @ + 1]
           ELSE Leave(result.table)
    /\ UNCHANGED <<terminal, pipeline>>

RunAction ==
    /\ frames # <<>>
    /\ Top.toSave = {}
    /\ Top.applied = Len(Top.ops)
    /\ ~Top.running
    /\ frames' = [frames EXCEPT ![Len(frames)].running = TRUE]
    /\ UNCHANGED <<table, terminal, pipeline>>

\* The action returns or throws.
Return ==
    /\ frames # <<>>
    /\ Top.running
    /\ pipeline = NoPipeline
    /\ Leave(table)
    /\ UNCHANGED <<terminal, pipeline>>
-----------------------------------------------------------------------------
(* External commands and pipelines: execute_pipeline.                      *)

Launch ==
    /\ Ready
    /\ \E n \in 1 .. MaxMembers :
        \E stages \in [1 .. n -> {<<>>} \cup [1 .. 1 -> OfMembers]] :
            pipeline' = [NoPipeline EXCEPT !.stages = stages]
    /\ UNCHANGED <<table, terminal, frames>>

Launching == pipeline.stages # <<>> /\ ~pipeline.launched
PipesMade == Len(pipeline.pipes) = Len(pipeline.stages) - 1

\* Without descriptors for the next pipe the pipeline ends here, and the
\* pipes made before it stay open.
MakePipe ==
    /\ Launching
    /\ ~PipesMade
    /\ LET free == Free(table, 0)
           k == Len(pipeline.pipes) + 1
       IN  IF Cardinality(free) < 2
           THEN pipeline' = NoPipeline /\ UNCHANGED table
           ELSE LET read == Lowest(free)
                    write == Lowest(free \ {read})
                IN  /\ table' = Put(Put(table, read, <<"read", k>>, FALSE),
                                    write, <<"write", k>>, FALSE)
                    /\ pipeline' = [pipeline EXCEPT !.pipes =
                                        Append(@, [read |-> read, write |-> write])]
    /\ UNCHANGED <<terminal, frames>>

\* What the i-th child makes of its copy: its ends of the pipes first, then
\* its redirections, then it closes every pipe it was born with.
Wired(t, i) ==
    LET pipes == pipeline.pipes
        input == IF i > 1 THEN Dup2(t, pipes[i - 1].read, Stdin) ELSE t
    IN  IF i <= Len(pipes) THEN Dup2(input, pipes[i].write, Stdout) ELSE input

\* A plausible bug: a child closes only the ends it does not use.
CloseReads(t, pipes) == Drop(t, {pipes[k].read : k \in DOMAIN pipes})

CloseAll(t, pipes) == Drop(t, Ends(pipes))

Child(t, i) ==
    LET result == ApplyOrdered(Wired(t, i), pipeline.stages[i])
    IN  [started |-> result.ok, table |-> CloseAll(result.table, pipeline.pipes)]

Fork ==
    /\ Launching
    /\ PipesMade
    /\ Len(pipeline.members) < Len(pipeline.stages)
    /\ pipeline' = [pipeline EXCEPT !.members = Append(@, Child(table, Len(@) + 1))]
    /\ UNCHANGED <<table, terminal, frames>>

\* The members forked before it are killed, and the pipes stay open.
ForkFailure ==
    /\ Launching
    /\ Len(pipeline.stages) \in FailingForks
    /\ PipesMade
    /\ Len(pipeline.members) < Len(pipeline.stages)
    /\ pipeline' = NoPipeline
    /\ UNCHANGED <<table, terminal, frames>>

Launched ==
    /\ Launching
    /\ Len(pipeline.members) = Len(pipeline.stages)
    /\ table' = Drop(table, Ends(pipeline.pipes))
    /\ pipeline' = [pipeline EXCEPT !.launched = TRUE]
    /\ UNCHANGED <<terminal, frames>>

Ended ==
    /\ pipeline.launched
    /\ pipeline' = NoPipeline
    /\ UNCHANGED <<table, terminal, frames>>

Next ==
    \/ Begin \/ Save \/ ApplyNext \/ RunAction \/ Return
    \/ Launch \/ MakePipe \/ Fork \/ ForkFailure \/ Launched \/ Ended

Spec == Init /\ [][Next]_vars
-----------------------------------------------------------------------------
(* Properties.                                                             *)

\* A command with redirections gives its caller the descriptors it may have
\* changed exactly as they were, flags included and the closed ones closed,
\* whatever its action did in between; a command that runs no others, or
\* whose redirections or savings fail, leaves no trace at all.  Only bare exec
\* keeps what it did (exec.cpp, run_with_command_redirections).
DescriptorsComeBack ==
    [][Len(frames') < Len(frames) /\ Top.kind # "exec" =>
        IF Top.kind = "nesting" /\ Top.running
        THEN LET back == Preserved(Top)
             IN  Drop(table', FD \ back) = Drop(Top.entry, FD \ back)
        ELSE table' = Top.entry]_vars

\* A table as a script may think of it, and what its redirections promise to
\* make of it.  The handle on the terminal can be copied like any descriptor,
\* but it is inherited only where a redirection has taken its number.
Visible(t, hidden) == [x \in DOMAIN t \ hidden |-> t[x].file]
Expected(view, ops) ==
    LET promised == Promised(view, ops)
    IN  [x \in DOMAIN promised \ ({terminal} \ Redirected(ops)) |-> promised[x]]

\* What a command or the member of a pipeline finds behind its descriptors is
\* what its redirections say, in the order written, over what its caller had:
\* no backup or pipe of the shell's own is seen, and none is in the way
\* (exec.cpp: "explicit redirections override pipeline wiring", "backups must
\* not occupy any descriptor named by the command").
RedirectionsMean ==
    /\ frames # <<>> /\ Top.toSave = {} /\ Top.applied = Len(Top.ops) /\ ~Top.running =>
            Inherited(table) =
                Expected(Visible(Top.entry, AllBackups), Top.ops)
    /\ \A i \in DOMAIN pipeline.members :
        LET pipes == pipeline.pipes
            piped == (IF i > 1 THEN {Stdin} ELSE {}) \cup (IF i <= Len(pipes) THEN {Stdout} ELSE {})
            view == Visible(table, AllBackups \cup Ends(pipes))
            wired == [x \in DOMAIN view \cup piped |->
                        IF x \notin piped THEN view[x]
                        ELSE IF x = Stdin THEN <<"read", i - 1>> ELSE <<"write", i>>]
        IN  pipeline.members[i].started =>
                Inherited(pipeline.members[i].table) = Expected(wired, pipeline.stages[i])

ScriptFds == 0 .. Stderr \cup UNION {Targets(op) : op \in Anywhere \cup Alone}

\* The descriptors the shell keeps for itself are the backups of the commands
\* in progress and its handle on the terminal: each is there, none is passed
\* to a child, and nothing else is open but pipes being wired and what scripts
\* opened, however saving, opening or an action failed on the way.
NothingLeaks ==
    /\ {x \in DOMAIN table : table[x].cloexec} = AllBackups \cup {terminal}
    /\ table[terminal].file = <<"terminal", 3>>
    /\ DOMAIN table \subseteq ScriptFds \cup {terminal} \cup AllBackups \cup Ends(pipeline.pipes)

\* Once a pipeline runs, the write end of a pipe is held by its producer alone
\* and the read end by its consumer alone, so that a reader sees the end of
\* its input and a writer a broken pipe (exec.cpp: "inherited unused writers
\* would keep downstream readers from seeing EOF").
EndsHeldOnce ==
    pipeline.launched =>
        /\ \A x \in DOMAIN table : table[x].file[1] \notin {"read", "write"}
        /\ \A i \in DOMAIN pipeline.members :
            \A x \in DOMAIN pipeline.members[i].table :
                LET file == pipeline.members[i].table[x].file
                IN  /\ file[1] = "read" => file[2] = i - 1
                    /\ file[1] = "write" => file[2] = i
=============================================================================
