----------------------------- MODULE Descriptors -----------------------------
(***************************************************************************)
(* Descriptor tables and the redirections that change them                 *)
(* (src/cjsh-core/src/core/cjsh_filesystem.cpp, exec/exec.cpp).  A table   *)
(* maps every open descriptor to the file behind it and its close-on-exec  *)
(* flag.  A redirection is a step on a table that may fail; the table it   *)
(* leaves then is the one the caller has to unwind.                        *)
(***************************************************************************)
EXTENDS Integers, FiniteSets, Sequences

CONSTANTS
    Limit,         \* descriptors are 0 .. Limit - 1
    Unopenable     \* the files no open succeeds on

ASSUME LimitAssumption == Limit \in Nat /\ Limit > 10

FD == 0 .. Limit - 1

Stdin == 0
Stdout == 1
Stderr == 2
NoFd == -1

\* A file is its kind and a number: the terminal, the n-th file, an end of
\* the n-th pipe.
Files == {"terminal", "file", "here", "read", "write"} \X Nat
Here == <<"here", 0>>

Put(table, fd, file, cloexec) ==
    [x \in DOMAIN table \cup {fd} |->
        IF x = fd THEN [file |-> file, cloexec |-> cloexec] ELSE table[x]]

Drop(table, fds) == [x \in DOMAIN table \ fds |-> table[x]]

Free(table, least) == {x \in FD \ DOMAIN table : x >= least}

Lowest(fds) == CHOOSE x \in fds : \A y \in fds : x <= y
Highest(fds) == CHOOSE x \in fds : \A y \in fds : y <= x

\* dup2: the copy does not close on exec, and a copy onto itself is no copy.
Dup2(table, from, to) ==
    IF from = to THEN table ELSE Put(table, to, table[from].file, FALSE)

\* What children inherit through exec.
Inherited(table) == [x \in {y \in DOMAIN table : ~table[y].cloexec} |-> table[x].file]
-----------------------------------------------------------------------------
Done(table) == [ok |-> TRUE, table |-> table]
Failed(table) == [ok |-> FALSE, table |-> table]

\* A plausible bug: the temporary owner closes what it has just installed.
TransferAndClose(table, opened, target) == Drop(Dup2(table, opened, target), {opened})

\* redirect_fd closes its temporary descriptor unless open returned the
\* target itself.
Transfer(table, opened, target) ==
    IF opened = target THEN table ELSE Drop(Dup2(table, opened, target), {opened})

RedirectFd(table, file, target) ==
    IF file \in Unopenable \/ Free(table, 0) = {}
    THEN Failed(table)
    ELSE LET opened == Lowest(Free(table, 0))
         IN  Done(Transfer(Put(table, opened, file, FALSE), opened, target))

SafeDup2(table, from, to) ==
    IF from \in DOMAIN table /\ to \in FD THEN Done(Dup2(table, from, to)) ELSE Failed(table)

\* The pipe is close-on-exec, its content is written and its write end closed
\* before the read end is moved to standard input, unless it is there already.
SetupHereDocument(table) ==
    IF Cardinality(Free(table, 0)) < 2
    THEN Failed(table)
    ELSE LET readEnd == Lowest(Free(table, 0))
         IN  Done(Transfer(Put(table, readEnd, Here, TRUE), readEnd, Stdin))
-----------------------------------------------------------------------------
(* A redirection of a command: [type, fd, from, file].                     *)

Redirection == [type : {"file", "duplicate", "close", "both", "here"},
                fd : FD, from : FD \cup {NoFd}, file : Files]

\* Command::redirects_fd, CommandRedirection::destination_fd
Targets(op) ==
    CASE op.type = "both" -> {Stdout, Stderr}
      [] op.type = "here" -> {Stdin}
      [] OTHER            -> {op.fd}

Redirected(ops) == UNION {Targets(ops[i]) : i \in DOMAIN ops}

Named(ops) == Redirected(ops) \cup ({ops[i].from : i \in DOMAIN ops} \ {NoFd})

\* One turn of the loop of apply_ordered_redirections.
Apply(table, op) ==
    CASE op.type = "file"      -> RedirectFd(table, op.file, op.fd)
      [] op.type = "duplicate" -> SafeDup2(table, op.from, op.fd)
      [] op.type = "close"     -> Done(Drop(table, {op.fd}))
      [] op.type = "here"      -> SetupHereDocument(table)
      [] op.type = "both"      ->
            LET out == RedirectFd(table, op.file, Stdout)
            IN  IF out.ok THEN SafeDup2(out.table, Stdout, Stderr) ELSE out

\* The whole loop: it ends at the first redirection that fails.
ApplyOrdered(table, ops) ==
    LET result[n \in 0 .. Len(ops)] ==
            IF n = 0 THEN Done(table)
            ELSE IF result[n - 1].ok THEN Apply(result[n - 1].table, ops[n])
            ELSE result[n - 1]
    IN  result[Len(ops)]
-----------------------------------------------------------------------------
(* What the redirections of a command promise, in the order written, to a  *)
(* script that sees files only: nothing the shell keeps for itself is in   *)
(* the way.                                                                *)

With(seen, fd, file) == [x \in DOMAIN seen \cup {fd} |-> IF x = fd THEN file ELSE seen[x]]
Without(seen, fd) == [x \in DOMAIN seen \ {fd} |-> seen[x]]
MustFail == [x \in {NoFd} |-> Here]   \* nothing matches it

After(before, op) ==
    CASE op.type = "file" -> With(before, op.fd, op.file)
      [] op.type = "here" -> With(before, Stdin, Here)
      [] op.type = "close" -> Without(before, op.fd)
      [] op.type = "both" -> With(With(before, Stdout, op.file), Stderr, op.file)
      [] op.type = "duplicate" ->
            IF op.from \in DOMAIN before THEN With(before, op.fd, before[op.from]) ELSE MustFail

Promised(view, ops) ==
    LET seen[n \in 0 .. Len(ops)] == IF n = 0 THEN view ELSE After(seen[n - 1], ops[n])
    IN  seen[Len(ops)]
=============================================================================
