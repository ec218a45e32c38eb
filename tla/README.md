# Specifications of cjsh

TLA+ specifications of the shell cjsh (`src/cjsh-core`) and of the line editor it embeds
(`src/cjsh-isocline`), the TLC runs that check them and the TLAPS proofs about them.
Everything is translated from the C++ and C sources; `PROJECT.json` names for each definition the
lines it stands for, for each property a mutation of the model that breaks it, and for each hazard
the properties that guard against it.

## 1. The system

cjsh is one process. Its main thread reads a line, parses it, interprets it and launches children;
almost all of its difficulty lies where something runs beside that thread: the children it forks,
the signals it receives, the worker thread that renders the prompt, the pool of workers that
generates completions, and other cjsh processes that share the history file.

| Part | State | Operations | Interacts with | Hard because |
|---|---|---|---|---|
| Job control (`core/job_control.*`, `core/job_state.h`, `builtin/job_control_commands.cpp`) | job records (remaining and stopped members, state, result, flags), two indexes of them, `%+`/`%-`, retained statuses of dead pids | register, poll and reap, notify, clean up, `bg fg jobs wait disown kill` | kernel (wait reports, signals), executor, main loop | reports arrive in any order and are taken by several loops; builtins write what they expect to happen |
| Executor (`exec/`) | pipelines, process groups, terminal owner, its own index of jobs; the descriptor table, backups of redirected descriptors, pipes | launch, wait in the foreground, background, `&^`, hang up at exit; redirect and restore | job control, terminal, kernel | stops and deaths of single members of a pipeline; redirections nest and fail half way, and what the shell keeps lives in the table it changes |
| Signals and traps (`core/signal_handler.*`, `builtin/trap_command.cpp`) | flags set by the handler, trap table, masks | record, dispatch between commands, reap | everything | a handler interrupts any instruction |
| Main loop (`core/main_loop.cpp`) | exit request, pending prompt work | poll, clean up, read a line, execute, push history | all | order of the steps around a prompt |
| Prompt (`core/prompt.cpp`) | active request, worker, result | begin, append, finish, consume | worker thread, editor | results of superseded requests |
| History (`isocline/edit/history.c`) | the shared file, a lock file, pending line, editor snapshots | push, remove last, clear, load, snapshot | other shells | concurrent shells, failures, deaths |
| Completion generation (`builtin/generate_completions_command.cpp`) | queue index, counters, stop flag | workers take targets, report, stop | threads | interruption, completion of the last worker |
| Line editor (`isocline/edit`), undo, typeahead, terminal | buffer, stacks, tty input | key events | history, completion | reentrancy of menus and redraw |
| Interpreter (`interpreter`) | pending break, continue or return, loop and errexit scopes, exit flag | execute blocks, lists, loops, conditionals, functions | executor, traps, variables | non-local exits through a dozen evaluators that call each other, with traps on the way |
| Shell arithmetic (`interpreter/arithmetic_evaluator.*`) | the shell's variables, a cache of postfix forms | split at lazy operators, tokenise, assign, increment, convert, evaluate | variables, expansion, `for (( ))` | assignments and increments are carried out while text is read, compiled text outlives the values it saw |
| Completion, highlighter, validation, cjshopt, the other builtins | tables, caches | sequential functions | editor | mostly pure, tested directly |

`PROJECT.json` "components" lists every part with its sources and says whether it is modelled.

What makes the parts correct:

* job control: a record agrees with the kernel, its result is that of its last member, its end is
  told at most once, the marks always name useful jobs, retained statuses are true, nothing the
  kernel reported is lost, waiters return and finished jobs leave;
* history: the file is an atomic log however shells interleave, fail or die, and an editor's
  snapshot that is not reread is up to date;
* prompt: what is shown belongs to the request on screen, and nobody forgets to announce a
  finished result;
* completion pool: each target is processed once, the exit code tells what happened, and every
  worker ends;
* signals: none is lost to a race with the handler, a trapped one does not kill, traps do not nest,
  and urgent ones are heeded;
* interpreter: a break, continue or return is consumed by the construct it is for and by no other,
  and nothing goes on for ever below it;
* arithmetic: an expression has the value C gives it and changes what C changes, whatever was
  evaluated before it;
* redirections: a command finds behind its descriptors what its redirections say and gives its
  caller back what it had, and the shell's own descriptors are neither seen nor lost.

## 2. Modules

| Module | Models | From |
|---|---|---|
| `JobRecord` | one job record and what a wait report makes of it | `job_state.h`, `JobManager::handle_child_status`, `wait_status_utils.cpp` |
| `JobControl` | children, kernel reports, records, both indexes, marks, retained statuses, main thread, builtins | `job_control.cpp`, `exec_jobs.cpp`, `exec.cpp`, `job_control_commands.cpp`, `main_loop.cpp` |
| `JobControlMC` | small instances for TLC | |
| `JobControlProofs` | type correctness, the marks, the accounting of members and statuses, the noticing of stops, for every instance | |
| `HistoryOps` | what one operation makes of a list of entries | `history.c` list functions |
| `HistoryStore` | sessions, lock file, data file, pending lines, snapshots | `history.c`, `editline_history.c` |
| `HistoryLog` | the abstract specification: an atomic log | the contract of `history_lock` |
| `HistoryStoreMC` | small instances for TLC | |
| `HistoryProofs` | `HistoryStore` implements `HistoryLog`; snapshots are true; the lock comes back; types; pushes are counted; induction over lists | |
| `AsyncPrompt` | rendering of the primary prompt, the Git workers, the gate, the refresh event | `prompt.cpp`, `main_loop.cpp`, `tty.c` |
| `AsyncPromptProofs` | type correctness and the safety of the prompt, for every instance | |
| `SignalDispatch` | delivery, dispatch, traps, exit requests, shutdown | `signal_handler.cpp`, `trap_command.cpp`, `main_loop.cpp`, `cjsh.cpp`, `shell.cpp` |
| `SignalDispatchProofs` | trapped signals spare the shell, traps do not nest, no observed signal is lost, shutdown sees every request | |
| `CompletionPool` | the workers of `generate-completions` and their condition variable | `generate_completions_command.cpp` |
| `CompletionBatch` | the abstract specification: a batch of items, each done once | its usage text and exit codes |
| `ShellPool` | `SignalDispatch` and `CompletionPool` in one shell | `check_for_interrupt` |
| `ShellPoolMC` | a small instance for TLC | |
| `ShellPoolProofs` | the pool has its types, stops in time, loses no wakeup and implements `CompletionBatch`; every behaviour of the shell is one of its pool, and the safety of both holds in it | |
| `ControlFlow` | the evaluators of the interpreter as a stack of calls | `interpreter.cpp`, `loop_`, `conditional_`, `case_evaluator.cpp`, `control_flow.h`, loop control builtins |
| `ControlFlowProofs` | a request finds the frame it is for, and nobody else takes it, for any script | |
| `Descriptors` | descriptor tables and what one redirection makes of them | `apply_ordered_redirections`, `cjsh_filesystem.cpp` |
| `Redirections` | redirected commands inside each other, pipelines and their children | `run_with_command_redirections`, `execute_pipeline` |
| `RedirectionsMC` | small instances for TLC | |
| `Words` | integers that wrap around | the helpers on `uint64_t` of `arithmetic_evaluator.cpp` |
| `WordsC` | what the operators of C mean on such integers | the semantics of C that POSIX refers to |
| `Arithmetic` | what one evaluation does without calling itself: splitting, tokens, increments, postfix | `arithmetic_evaluator.cpp` |
| `ArithmeticC` | the reference: syntax trees of C, how they are written, what they mean | the grammar and semantics of C that POSIX refers to |
| `ArithmeticExpansion` | `evaluate` and its calls of itself, in a shell with its variables and its cache | `ArithmeticEvaluator::evaluate`, `handle_assignment_operators`, `evaluate_arithmetic_expression`, `loop_evaluator.cpp`, `variable_expander.cpp` |
| `ArithmeticMC` | the expressions for TLC | |
| `ArithmeticProofs` | operators mean what C says; all values are words and the cache is true, for any expressions, variables and width | |
| `RedirectionsProofs` | descriptors come back, the shell's own stay private, nothing leaks, pipe ends are held once, redirections mean what they say | |

### Job control

The shell is one thread, so `shell` says where it is (top of the loop, in readline, inside a
builtin, blocked in one of the four waiting loops) and what it still waits for. Children run
beside it: `proc` holds for each pid its life and the report `waitpid` has for it. A child that
stops and continues before anybody asks leaves one report, the last, as in Linux. Every shell
action takes at most one report from the kernel, so that a child may act between any two
`waitpid` calls of a loop.

`jobs` maps a job number to its record; `table` and `execTable` are the key sets of
`JobManager::jobs` and `Exec::jobs`, which share records. `RecordWaitStatus` in
`JobRecord` is the state machine of `job_state.h`; `HandleChildStatus` of
`JobControl` is `handle_child_status` with the retention of terminal statuses; `GoPolling`
(in `StartTick`, `StartIdle` and `StartBuiltin`) and `PollChild` are `update_job_statuses`, whose
gather-then-apply of up to 16 reports
commutes with children because a report is applied only to its own job; `Fg`, `Bg`, `Disown`,
`Kill...` and `Wait...` are the builtins, each as a whole up to the point where it may block.

Left out: the syntax of job specifications, `suspend`, `$!`, traps inside a wait, terminal
handoff (`tcsetpgrp`) and failures of `kill(SIGCONT)`, the launch barrier of a pipeline, relaying
of captured output, the gate that stops children reading the terminal, and private foreground
commands that never get a record. Pids are fresh: the model reuses none. The `ECHILD` branches of
the waiters are unreachable, which `MembersAccounted` shows.

### History

Each session of `HistoryStore` is a process. `pc` is where it is in an operation: waiting for the
flock (`lock`), about to read the data file (`read`), about to rename its temporary file over it
(`rename`), about to release the lock (`unlock`), or between the `stat` and the read of a snapshot
(`look`). `file.version` is the identity `stat` sees (inode, size and times); each rename makes a
fresh one. An entry is a command with its frequency; the working directory that also identifies an
entry is part of the command. A write of the temporary file and its rename are one action because
no other process looks at the temporary file; failure at any point of it is `WriteFails`.

`history_update` reaches the disk only when no line is pending, and `history_remove_last` and
`history_clear` drop the pending line first; all of this is in the actions. cjsh turns `auto_add`
off, so `EndEdit` pushes nothing and the main loop calls `Push` after the command ran.

Left out: the file format and its parser, the migration of old metadata, the views by directory,
search and sorting.

### Asynchronous prompt

`manager` holds the members of `AsyncGitPromptManager`, one field each; `awaiting_async_result_`
has none because it always equals `refresh_pending_`, nor has the prompt's text. The main thread
is at the `loop`, in `render`, in the `wait` for `kGitInlineBudget`, about to `announce` at the end
of `finalize_render`, `ready` to read, or in `read`. Each worker is a record that names the
prompt, segment and repository it was started for and where its thread is: computing, about to
hand over its result, at the gate, or about to push the event. An action is one critical section
of `mutex_`; the gate `g_prompt_refresh_allowed` and the push of the event lie outside it and are
actions of their own, as the prompt may change in between. `tty_code_pushback` changes
`push_count` without a lock, so a push while the editor reads may be lost. `filled` and
`announced` are history variables: the status in the prompt on screen, and whether an
announcement of this prompt's result was tried.

Left out: the text of the prompt and the offsets of its placeholders, a segment in
`PROMPT_EOL_MARK` or `PS4` (which leaves offsets of another text), shells that are not
interactive (no worker runs), and directories changed by idle hooks, which do not render anew.

### Signals, traps and shutdown

`Handle` is the asynchronous handler, which may run between any two other actions; it sets
`received` and, for some signals, `pending`. A dispatch is a frame on `stack` that exchanges
`pending` first and then reads the flags one by one (`ReadFlag`), the trap of `INT` last; the trap
it runs is a `Body` frame above it, which polls around its own commands and may set and reset
traps or ask for exit. `SetTrap`, `ResetTrap` and `IgnoreSignal` change the kernel's disposition
and `FinishInstall` the observed signals, two steps a signal may come between, as in
`set_signal_disposition`. `phase` follows main from the loop through the transition (signals
`held`), the release of the mask, the exit handlers and `finish_shutdown`. `owed` is a history
variable: trapped signals whose trap has not begun since they came.

Left out: `SIGCHLD` (part of the polls and waits of `JobControl`), signals that only set a flag and
run a trap (they behave as `USR1` does), `ERR`, `DEBUG` and `RETURN` traps, shells that are not
interactive, dispositions of children.

### Completion generation

`CompletionPool` gives each worker a program counter over the lock, the predicate, the sleep, the
item and the announcement; the steps made under `work_mutex` are one action where nothing outside
it looks, and `FallAsleep` and `Sleep` are two, since the stop flag is set without the lock and may
come between a worker's predicate and its sleep. What the regeneration of a command finds is a
choice. `ShellPool` EXTENDS both modules: a worker that must know whether to stop dispatches the
signals of the shell in place of the main thread (`AskDispatch`, one at a time behind
`signal_poll_mutex`), traps run on its thread, and main asks once more after the join.
`CompletionBatch` is what the builtin promises, without workers.

### Interpreter

Each call of an evaluator is a frame of `ControlFlow`: a block of lines, a list, a `;` list, a loop,
a conditional, a compact branch, a case, a function or sourced text ("function"), a trap. `ret` is
what a call has just returned to the frame below, with `last_result_errexit_exempt`. The script is
not fixed: whenever an evaluator takes its next command any construct may come, so the properties
are about all scripts of that depth. `LoopScope` and `ErrexitScope` are C++ guards, read off the
stack (`EnclosingLoops`, `Suppressed`). `flow` is the pending request; `flow.aim` is a history
variable, the frame the request is for.

A command that is not found ends its block under `errexit` even where its member is exempt
(`NotFoundAborts`); since its status is one of `Failure`, any failure may do so in the model.

Left out: the recognition of constructs in text, the flag of fatal parameter expansions, `TERM` and
`HUP` without a trap at a poll, `! function`, `noexec`, redirections around compound commands (in
`Redirections`), empty conditions, and the older path for one simple line.

### Redirections

`table` maps every descriptor of the shell to the file behind it and its close-on-exec flag;
`Descriptors` gives what `open`, `dup2`, `close` and here documents make of a table, and `Promised`
what a redirection means to a script that sees files only. A frame of `Redirections` is one call of
`run_with_command_redirections`: it saves one descriptor per step (`Save`), applies one redirection
per step (`ApplyNext`), runs its action, and restores; the action of a frame that may run others
runs further frames and pipelines. The handle on the terminal moves out of the way for good
(`MoveTerminal`). A child of a pipeline is a function of the table it was born with (`Child`).
`entry` is a history variable, the table a frame was entered with.

Left out: process substitutions, coprocesses, `noclobber`, the bytes in a pipe, the launch barrier
and the pseudo terminal of a captured job, the second handle `Shell` keeps on the terminal.

### Shell arithmetic

A text is a sequence of atoms: a number, a name, or one character. `Arithmetic` has the functions of
the evaluator in the order of the code: `Normalized` strips spaces and parentheses, `Split` finds the
lazy operator evaluation is split at, and otherwise `tokenize`, `Assign`,
`handle_increment_operators`, `infix_to_postfix` and `evaluate_postfix` follow each other. Each loop
is a recursive function of how often it went round.

`evaluate` calls itself, for the operands of lazy operators and for the right-hand sides of
assignments, and all calls share the variables and the cache. `ArithmeticExpansion` therefore keeps
the calls that have not returned on a stack, `calls`, each with what it does next: one action per
stretch of code between two calls (`EvaluateCondition`, `EvaluateBranch`, `EvaluateRhs`,
`AssignRhs`, `Finish`...). `answer` is what the last call returned or why evaluation failed; an
exception empties the stack and leaves the variables as they are.

`ArithmeticC` says what an expression means,
as a tree and without any of this, with bits and powers defined anew; `Written` puts a tree into
text with the parentheses the grammar asks for and no others. `AgreesWithC` compares the two,
except where the order of two effects is C's to choose (`Unsequenced`), and except for expressions
in one of four shapes that the evaluator gets wrong (`UnaryOfUnary`, `JoinsSigns`,
`EvaluatesTooMuch`, `AssignsBetween`; see the disagreements below).
Each is a condition on the tree, so that everything outside them is claimed to be right.

Left out: the digits and bases of literals, the limit of 128 characters on what is cached,
characters no token is made of, what `strtoll` makes of a variable that holds no number, and
whether a variable is local. A division that overflows in `/=` or `%=` is a trap
(`Traps`), as it is on the processors that trap.

## 3. Runs

Every run finishes within five minutes with two workers, most within one.

| Run | Question | Instance |
|---|---|---|
| `JobControlPipeline` | does a record agree with the kernel, with its last member, is its end told once and for good, is the status of whatever is reaped retained, do waiters return and finished jobs leave? | a pipeline of two, deaths and terminal stops, `&^`, every builtin |
| `JobControlJobs` | are `%+`/`%-` useful and the two indexes in step, are retained statuses true when the cache is full, does `wait` tell each process's own status, does a stop ever go unnoticed? | two jobs of one process, two exit codes, one operand or none, POSIX mode, a cache of one |
| `JobControlFgStuck` | violation: `fg` forgets a stopped member | pipeline of two |
| `History` | is the file an atomic log, does a frequency count, is a kept snapshot true, is the lock given back? | two shells, one with duplicates and one that edits lines, three operations, limits 0 and 2 |
| `AsyncPrompt` | does a status belong to its prompt, is a placeholder served, does somebody try to announce a usable result? | three prompts, two segments, two repositories and a plain directory |
| `ShellPool` | is a signal lost, does a trapped one kill, do traps nest, does shutdown see every request; does the pool stop early, sleep for ever, lie in its exit code; do the pool and urgent signals come to their end? | `INT` and `TERM`, `TERM` and `EXIT` trapped at startup, two arrivals, one command that sets a trap or exits, two workers, a requested command with discoveries |
| `ControlFlow` | does a request wait for the frame it is for, does no other consume it, does it and an exit come to its end? | every construct, `set -e`, POSIX, levels up to two, one signal, five nested calls |
| `ControlFlowFailure` | violation: without `errexit`, a failure ends the list of a case clause | while, if, case and lists, four nested calls |
| `Redirections` | does a command find what its redirections say, give its caller back what it had, leak nothing; who holds the ends of a pipe? | two redirections per command out of six (a file, one that does not open, duplications, a close, a here document), two more at descriptor ten for unnested leaves, two nested commands, pipelines of three |
| `PipelineRedirection` | violation: a redirection of a pipeline member onto the number of a pipe is lost | pipeline of two |
| `Arithmetic` | does an expression mean what it means in C, does the cache hold values, is everything on its way a word? | every expression of one operator, and those of two with operators of each kind; five expressions over and over in a loop; words of three bits, two variables, one of them readonly, a cache of two |
| `ArithmeticShortCircuit` | violation: an operand that a lazy operator skips has its effect | assignments of `&&` and `\|\|` with an assignment or increment on the right |

Bounds. A pipeline of two has a first and a last member, members that die, stop and continue in
every order, and a member the job's result must not come from. The marks with three jobs or more,
where one is chosen among others after a removal, are covered by `RecencyMarksAlways`, which has no
bound. Two sessions suffice for a race on the file: a third can only wait as the second does, and
`HistoryProofs` removes the bound. The limit 256 of the status cache is never reached in
`JobControlPipeline`, and `JobControlJobs` sets it to one to reach it. `Commands` in the
configurations restricts which builtins lines hold, where others add nothing to the question. A
frequency limit of 2 stands for `LLONG_MAX` in `History`. Three prompts let two workers of earlier
prompts end while a third is shown, and two segments let one be answered after another timed out.
Two arrivals let a signal come inside the dispatch or the trap of another; two workers are a waiter
and one to notify it, and `ShellPoolProofs` removes the bound. Five nested calls hold a loop
in a function in a loop in a block with a list or a trap on top, and two levels reach past one loop.
In `Redirections` a table of fifteen fills up under two frames with backups, so that saving and
opening fail; `FailingForks` is one because a failed fork of a longer pipeline leaves its pipes
open (see below), and standard input is never closed by a nested command.
Three bits hold the least word, which has no opposite, shifts by the width, and products, powers and
literals that wrap; variables start as the least word
or two, and the one literal wraps around to minus one. Two operators are the
least that precedence, associativity and the order of effects are about, and a cache of two is
cleared by the loop's third text.
`MaxOperands`, `MaxJobs`, `MaxMembers`, `PidMax`, `MaxCalls`, `MaxArrivals`, `MaxCommands`,
`MaxLevels`, `MaxSignals`, `MaxFrames`, `MaxOps`, `MaxDepth` and `Limit` are the bounds.

What the runs do not say. `FinishedJobsLeave` is checked where notifications are suppressed but
never deferred, which happens in POSIX mode only. `NoticeGiven` says that an announcement was tried,
and a closed gate or a lost push may still swallow it. `OwedKept` and `TrappedSignalSpares` speak of
signals that were observed when they came, so nothing is claimed of one that falls between
`sigaction` and `observe_signal` while its trap is being set. `RedirectionsMean` and
`DescriptorsComeBack` are about commands that name single digits wherever they run others, and in
the passing run about pipelines that name none of their own pipes.

Fairness. `FairSpec` of `JobControl` asks that the shell's own loops go on: a poll that started
ends, a cleanup is done, a waiter takes a report that the kernel holds, a tick comes after a
prompt. These are steps of a single thread that nothing disables. The children owe nothing: a job
that is stopped for ever is waited for for ever, so `WaitersReturn` assumes that the members the
waiter waits for are dead. `Fairness` of `ShellPool` is weak fairness of each thread that has a
step to make (the workers, the dispatch somebody waits for, main's loop and shutdown, shell code in
progress) and of the kernel's delivery of a signal that is no longer blocked; nobody has to type,
trap or send a signal. `FairSpec` of `ControlFlow` lets the evaluator go on, and says that the list
on one line is finite: its last member comes, however often the line is run. The scripts owe
nothing else, a `while` may go round for ever. `HistoryStore`, `AsyncPrompt`, `Redirections` and
`ArithmeticExpansion` promise safety, and their passing runs assume no fairness.

Disagreements with the code's own words. `PROJECT.json` "findings" quotes them: `fg` marks all
members running while only a job whose aggregate state is stopped is continued; the commands of a case clause, and of a
branch of an `if` on one line, stop at the first failure although `errexit` is off; a pipeline child
closes the pipes it was born with after its redirections, and with them a file that was redirected
onto one of their numbers; an assignment or increment in the operand that `&&` or `||` skips is
carried out when the operator stands on the right of an assignment.

The shapes `AgreesWithC` excludes are disagreements with C: of two unary operators in a row the
outer one is applied first (`!!5` is 0, `-+5` is 5); a right-hand side is put together again without
spaces before it is read (`x = a - -b` decrements `a`, and so does subtracting a literal that wraps around to a negative
value); a lazy operator inside another operator
evaluates all its operands (`1 + (0 ? 1/0 : 2)` fails); and an assignment between `?` and `:` is an
assignment of the whole (`0 ? x=5 : 2` sets `x`).

Met while modelling and not checked: `x /= -1` and `x %= -1` of the least word trap, and `<<=`, `>>=`,
`&=`, `|=` and `^=` silently give another value; `wait PID` leaves the status of a live child behind
for a second `wait`; a Git status that comes after its segment timed out and before the editor reads
is announced to a closed gate and never shown, and one whose event is pushed beside the editor's pop
may be lost; `wait -n -f` answers when one member dies and leaves its job
stopped; a failed fork or pipe in `execute_pipeline` closes no pipe and reaps no member; a here
document longer than a pipe holds blocks the shell, and one read when standard input is closed stays
close-on-exec; a command that runs others and is inside one that named descriptor ten or more can
overwrite a backup (`OrdinaryAssumption` excludes it); under `errexit`, `nosuch && x` ends the block
although its failing member is not the last (`interpreter.cpp:1974`); dispatch reports `SIGINT` to its caller even
when a trap has served it; a trap that runs while a loop polls can break only the loop around it; a
brace group before `&&` is evaluated without an errexit scope; `kill -CONT` of one member of a pipeline clears all its
stopped members; `wait PID` of a member that is not the last returns the status of its job when
the job still exists; `suppress_notifications` stays set after a wait that a stop ended;
`Exec::jobs` keeps finished background records until `disown` or exit; a second `\g` that is answered at once or from the cache forgets the placeholder of the first; an
update that arrives when something is typed is consumed and lost.

## 4. Proofs

`JobControlProofs` proves, for any number of processes, jobs, members and any mode:

* `TypeCorrect`: `Spec => []TypeOK`. `TypeInv` has one conjunct per variable group; each action
  has one step, and lemmas (`UpdateTypes`, `TakeReportTypes`, `ReturnTypes`...) carry the shared
  parts.
* `RecencyMarksAlways`: `Spec => []RecencyMarks`. The marks are only changed by `UpdateCurrentPrevious` and
  `RemoveMark` and by what picks the newest job; `MarksInv` adds that the marks name jobs of the
  table, from which both operators re-establish the property (`RemoveJobUseful`, `NewestIsOne`).
* `MembersAlwaysAccounted`, `ExitStatusAlwaysOfLastMember`, `FinishedAlwaysToldOnce`,
  `IndexesAlwaysAgree`, `RetainedAlwaysTrue` and the action properties `FinishedStayFinished`,
  `ReapedAlwaysRetained` and `WaitAlwaysTellsTheTruth`, all from one inductive invariant,
  `AccountInv`. None of them is inductive alone. A record is `Truthful`, which is more than
  `MembersAccounted` says: who is missing from its sets is dead and reaped, its result is the last
  member's status, and a completed record has nobody left. Records outside `Exec::jobs` do not
  exist (`NoOthers`), what `JobManager::jobs` dropped is finished (`Listed`), no process is a
  member of two jobs (`Disjoint`), which is why applying a report to one record leaves the others
  true, and a retained status is the kernel's (`RetainedIsTrue`). Every action is then one of four
  shapes, each proved once to preserve the invariant: it changes no member (`Gentle`), takes one report
  (`Reported`), launches a job (`Launches`) or drops a finished or disowned one (`Dropped`).
  TLC checked the invariant on both instances of the runs first.
* `StopsAlwaysNoticed`: `Spec => []NoUnnoticedStop`, as long as jobs have one process or lines hold
  neither `fg` nor `kill` of one process (`Unforgetting`). The hypothesis is what the code needs:
  `fg` and `kill -CONT pid` clear all stopped members of a record, and continue none of them (the job
  is not stopped as a whole) or one; `JobControlFgStuck` has that behaviour, with `fg` and a pipeline
  of two. The invariant `NoticeInv` adds that what is reported of a stopped child is that it stopped
  (`StopsTold`), so a continue report never hides a stop, and that a job of one process with a
  stopped member is a stopped job (`StopKnown`), so that `fg` does continue it. Besides reports,
  launches and drops, every step is `Attentive`: whoever stops has a report, and a record's stopped
  members are cleared only if they all run again.

`HistoryProofs` proves, for any sessions, commands, limits and initial file:

* `HistoryIsAtomic`: `Spec => Atomic`, the refinement of `HistoryLog`. The inductive invariant
  says that a session past `history_lock` is the lock's holder (`HolderOnly`) and that a draft
  that is about to be renamed is its operation applied to what the file holds now (`DraftFresh`).
  The second is not inductive without the first: another session's rename would make it stale.
  A rename then maps to the instant an operation takes effect and all other steps to calls,
  returns, deaths or stutters.
* `SnapshotsStayTrue`: `Spec => []SnapshotTrue`. A snapshot's version is never ahead of the file's
  (`NeverAhead`), and entries read under the snapshot's version are the file's as long as the
  version is (`TakenTrue`); because the `stat` comes before the read, a file replaced in between
  only makes the snapshot look older than it is.
* `HistoryTyped` and `PushesAreCounted`: `Spec => []TypeOK` and `Spec => FrequencyCounts`, for
  histories of any length. Both are about what `Distinct` and `Of` compute, which are recursive
  functions on lists. `Recursion` shows that such a recursion defines a function, and `Lists` that a
  set of lists that holds the empty one and every extension of its own holds all; both rest on
  `LeastNatural`, which the library's theorem about well-founded relations gives without an
  operator parameter. `DistinctKeepsNewest` then says that removing duplicates keeps the newest entry of
  each command, and `Settings` that a push in progress has the limit its session has.

* `LockComesBack`: `Spec => []LockReturned`. The lock is held only by a session inside an operation.

`AsyncPromptProofs` proves the three properties of its run, `MarkerAlwaysBelongs`,
`PlaceholderAlwaysServed` and `NoticeAlwaysGiven`, and `TypeCorrect`, which no run needs to check any more, from one inductive invariant with four parts
beside the types. `Control` ties the main thread's place to the counters; `Owned` says that
whatever carries the active prompt's number was computed where that prompt is rendered, which
holds because a number is used once and the directory does not change before the line is read;
`Served` adds to the property that a worker believed to run for the active prompt does run, which
is what makes it safe not to start another; `Noticed` adds that a result that came after its
segment timed out is remembered until the rendering ends.

`SignalDispatchProofs` is about `SignalDispatch` alone, for any signals, startup files, arrivals and
commands:

* `TrappedSignalAlwaysSpares`: a due trap is set and its signal observed (`OwedObserved`), in both
  halves of a change of disposition, so `Fatal` never takes it for an untrapped signal.
* `TrapsNeverNest`: `s_executing_trap` is set exactly while one trap body is on the stack
  (`OneTrap`); it needs that no shell code is on the stack when the transition ends
  (`IdleAtRelease`).
* `OwedAlwaysKept`: between the handler and its trap a signal's flag is set or a dispatch has taken
  it. That is not inductive: a dispatch that found `INT` keeps saying so after it served the
  trap. The invariant asks for a dispatch that still has the trap before it (`StillToServe`,
  `OwedInSight`), which needs that dispatches read the flags in their order (`InOrder`).
* `ShutdownAlwaysSeesAll`: once in the transition no request comes in, and the dispatch at the bottom of
  the stack has yet to read each one that is there (`TransitionReads`), so none is left when shutdown
  begins. `InSight` is the invariant of both; what a step does to the frames is one relation,
  `Moves`, with one lemma per kind of step.

`ShellPoolProofs` proves of `CompletionPool`, for any workers, requests and discoveries:

* `PoolTypeCorrect` and `PoolStopsLate` from `Sound`: `active_workers` is the number of workers
  with work in hand (`ActiveCounted`), and the pool is complete exactly when the queue is empty and that
  number is zero (`Settled`).
* `NobodySleepsForGood`: whoever sleeps, or is about to, leaves another awake that will notify it
  (`WaiterHasHope`, inductive with `Sound`).
* `PoolKeepsItsPromise`: the refinement of `CompletionBatch`. `Orderly` adds to `Sound` that
  nothing is queued, in hand or done twice, that failures are requested commands that are done, and
  that workers leave only for a reason.

It then shows that every behaviour of the composed shell is one of the pool
(`ShellRunsThePool`), so what holds of the pool holds there (`PoolInTheShell`). It is not one of
`SignalDispatch`: the waiting loop of the pool calls the dispatcher, which no command of
`SignalDispatch` does. Each step is a step of `SignalDispatch` or one of three more, the builtin asks,
it returns, its command ends (`SignalSteps`); `ShellSound` adds to the signal invariants where the builtin's
frame can lie (`BuiltinFrames`), and the three steps preserve it. That gives
`OwedAlwaysKeptInTheShell`, `TrapsNeverNestInTheShell`, `ShutdownSeesAllInTheShell` and
`TrappedSignalSparesInTheShell`. `ThreadNames` assumes that the main thread is no worker.

`ControlFlowProofs` proves, for any script, nesting, level and signals:

* `RequestsAlwaysAwaited`: `Spec => []RequestsAreAwaited`. A request that a frame below can no longer
  deliver is the hazard, so the invariant has to say more than the property: for a loop control
  request with `n` levels to go, that enough loops lie below the frames it has left and that every
  one of them from the one it is for upwards has its `LoopScope` open, and for a return, that the function it is for
  is the innermost one (`Due`, of the request under way in `FlowDue`, and in `SavedDue` of the one each
  trap on the stack has put aside). `NthFromTop` and its neighbours count the scopes. Each action is of one shape
  (`StepShape`): it keeps the stack, pops or pushes one frame and leaves the request alone (`Calm`),
  makes a request (`Requested`) or consumes one (`Consumed`), or it enters or leaves a trap.
* `OnlyBoundariesConsume`: `Spec => OnlyItsBoundaryConsumes`. The attempt to prove it as it stood
  found a behaviour beyond the five frames of the run, where TLC confirmed it with seven: a `break` in a
  `for` inside a `while`, when a trap then exits, leaves the `for` by the exit without being
  consumed, and the `while` takes it (`loop_evaluator.cpp:588` looks at the exit before
  `:570` and `:862-911` look at the request). Nothing runs after an exit, so it is harmless, and the
  property now speaks of a shell that is not exiting.

`RedirectionsProofs` proves, for any redirections, nesting, pipelines and table size, that
redirected commands give their descriptors back (`DescriptorsComeBackTheorem`) and that the shell's
own descriptors are open, close-on-exec and apart from each other and from all that frames restore
(`PrivateTheorem`). `Invariance` is the inductive invariant: frames lie in the order their kinds
allow (`Stacked`), backups lie above every descriptor their frame names (`Kept`), each
still holds what it was made of (`Held`), outside what it preserves a frame whose action has not
run others has changed nothing (`Untouched`), and pipes being wired are nobody's backup (`Piped`).
`Kept` needs `OrdinaryAssumption`: commands that run others name single digits. Without it a nested
command can overwrite an outer frame's backup, and the property is false.

Three more hold with hypotheses, each of which excludes something the code does do:

* `NothingLeaksTheorem`: `NothingLeaks`, as long as no pipeline that has made pipes fails to launch
  (`LaunchFails`: after a failed `fork` or `pipe` the ends made so far stay open, `exec.cpp:1845`) and
  no script both closes standard input and reads here documents (the pipe of a here document then
  gets number 0 itself, is not duplicated, and keeps close-on-exec). The invariant added is `AllTidy`:
  what closes on exec belongs to the shell, now and after anything saved is put back, nothing is open
  but what somebody names, and where here documents are read standard input is open or was saved.
* `EndsHeldOnceTheorem`: `EndsHeldOnce`, as long as no such pipeline fails to launch and no member
  copies from a number that one of its own pipes happens to have (`NamesNoEnd`). The invariant added is
  `AllWired`: outside the pipes being wired no descriptor is the end of one, the k-th pipe's numbers
  hold the k-th pipe's ends, and members hold their own.
* `RedirectionsMeanTheorem`: `RedirectionsMean`, for commands with any number of redirections, as
  long as no script both closes standard input and reads here documents, and members of pipelines
  keep off what the shell has open for itself (`MembersKeepOff`): their redirections name no end of
  their own pipes, copy from no backup, do not copy the shell's terminal onto itself, and pipes did
  not get the numbers of standard input or output. The code checks none of that;
  `PipelineRedirection` shows what happens then. Pipes and forks may fail here. `Promised` is a
  recursive function over the redirections, so the proof is by induction over how many are applied
  (`SeenIs`): `AllMeant` says that a command sees so far what the redirections applied so far say,
  `AfterAgrees` that one more keeps it so, `AllNeat` what closes on exec, and `AllDelivered` that
  every member forked so far found what its redirections say over its ends of the pipes.

The run `Redirections` satisfies these hypotheses by its constants: only pipelines of one member fail
to fork, and none of its scripts closes standard input or names a pipe's number.

`ArithmeticProofs` proves, for words of any width, any variables and values, any texts and a cache of
any size:

* `OperatorsMeanWhatCSays` and `UnaryOperatorsMeanWhatCSays`: every operator has the value that
  `WordsC` gives it, wrapped around, and that value is a word. The code computes in unsigned words;
  `Alike` says that two integers are equal modulo 2^Width, sums and products of alike integers are
  alike, and alike integers wrap to the same word. `fast_pow` squares and multiplies, so its loop has
  the invariant that result times base to the exponent left is alike the power (`FastPowIs`).
  Shifts out of range, the bits of negative numbers and the least word over minus one are cases of
  the theorems.
* `TypesAreKept`: `Spec => []TypeOK`. It follows from the inductive invariant `IInv`; that a
  call waiting to assign still finds a variable before its assignment is in the type of a call. The
  loops of the evaluator are functions of the number of rounds: `LoopExists` shows that they are
  functions, and `LoopStays` carries an invariant through every round, by induction over the rounds.
  With it `tokenize`, `handle_increment_operators`, `infix_to_postfix` and `evaluate_postfix` are
  shown to produce tokens and words whatever they read.
* `CacheIsTrue`: `Spec => []CacheTrue`. That the cache is true now does not say that the next text
  put into it is read without a value, so the invariant speaks of the calls too (`SoundCall`): one
  that is compiling a cacheable text holds the tokens that text has in every state of the variables
  (`Plain`: names stay names, and there is no assignment and no increment to carry out), and one that is about to assign works
  on a text that is not cacheable. What comes into the cache is then the postfix form of plain
  tokens (`CacheSound`).

The theorems assume only the ASSUMEs of the modules (finite bounds are natural numbers, the
sentinels are no sessions and no commands, the thread names differ, and the two of `Redirections`).

Only model-checked:

* `AgreesWithC`: the meaning of a syntax tree and how it is written are recursive over trees of any
  depth, `RECURSIVE` operators in `ArithmeticC`, about which nothing can be proved. What is proved of
  it is each operator, whose meaning `WordsC` has without recursion.
* all liveness (`WaitersReturn`, `FinishedJobsLeave`, `Heeded`, `PoolEnds`, `UnwindingEnds`), which
  needs fairness and ENABLED.

## 5. Not modelled, and why

Parsing, expansion, highlighting, validation, completion sources, cjshopt and most builtins are
sequential functions of text with direct tests, and they are the bulk of the lines; terminal and
drawing code is input and output. Each is in `PROJECT.json` with its reason; what is left out of
the components that are modelled is listed under each above.

## 6. Plan

1. Done: job control, history, the asynchronous prompt, signals, the completion pool and the shell
   that runs it, control flow, redirections, arithmetic.
2. Coprocesses and process substitution: the threads and FIFOs of `exec.cpp`, with the cleanup that
   waits for a FIFO nobody opened; `SignalDispatch` composed with `JobControl` through the report
   of a child; process groups and the terminal's owner.
3. Variable scopes, the directory stack, undo and typeahead, as small modules with reference
   definitions.
