----------------------------- MODULE HistoryOps -----------------------------
(***************************************************************************)
(* What one history operation makes of the entries it read from the        *)
(* history file: the list functions of isocline's history.c.  An entry is  *)
(* a command with the frequency kept in its metadata; the directory that   *)
(* also identifies an entry is part of "command" here.  Newest is last.    *)
(***************************************************************************)
EXTENDS Integers, Sequences, SequencesExt

CONSTANTS
    Commands,      \* the commands that are entered
    FrequencyLimit \* LLONG_MAX, where a frequency saturates

ASSUME FrequencyIsPositive == FrequencyLimit \in Nat \ {0}

Entries == [command : Commands, frequency : 1..FrequencyLimit]

\* history_list_prune_to_max: the oldest go first
Pruned(list, limit) ==
    IF Len(list) <= limit THEN list ELSE SubSeq(list, Len(list) - limit + 1, Len(list))

\* the entries of these commands, in their order
Of(commands, list) ==
    LET of[read \in Seq(Entries)] ==
            IF read = <<>> THEN <<>>
            ELSE IF Last(read).command \in commands THEN Append(of[Front(read)], Last(read))
            ELSE of[Front(read)]
    IN  of[list]

Without(list, command) == Of(Commands \ {command}, list)
Same(list, command) == Of({command}, list)

\* history_list_remove_duplicates: the newest of equal entries stays where it is
Distinct(list) ==
    LET distinct[read \in Seq(Entries)] ==
            IF read = <<>> THEN <<>>
            ELSE Append(Without(distinct[Front(read)], Last(read).command), Last(read))
    IN  distinct[list]

\* history_collect_disk_entries
Collected(list, limit, duplicates) ==
    IF duplicates THEN Pruned(list, limit) ELSE Distinct(Pruned(list, limit))

Newest(list, command) == Last(Same(list, command))

\* mutants: the duplicate goes before its frequency is read; no saturation
FrequencyOfRemaining(list, command, duplicates) == 1
UnboundedFrequency(list, command, duplicates) ==
    IF duplicates \/ Same(list, command) = <<>> THEN 1 ELSE Newest(list, command).frequency + 1

\* the frequency a pushed command gets from the entry it replaces
NextFrequency(list, command, duplicates) ==
    IF duplicates \/ Same(list, command) = <<>> THEN 1
    ELSE IF Newest(list, command).frequency >= FrequencyLimit THEN FrequencyLimit
    ELSE Newest(list, command).frequency + 1

\* history_push_with_metadata_unlocked
Pushed(list, command, limit, duplicates) ==
    LET read == Collected(list, limit, duplicates)
        entry == [command |-> command, frequency |-> NextFrequency(read, command, duplicates)]
    IN  Pruned(Append(IF duplicates THEN read ELSE Without(read, command), entry), limit)

\* history_remove_last_unlocked: duplicates stay, whatever the session allows
LastRemoved(list, limit) ==
    LET read == Pruned(list, limit) IN IF read = <<>> THEN read ELSE Front(read)

\* history_update_unlocked: the newest entry is reworded and keeps its frequency
Updated(list, command, limit, duplicates) ==
    LET read == Collected(list, limit, duplicates)
    IN  IF read = <<>> THEN Pushed(list, command, limit, duplicates)
        ELSE Append(Front(read), [Last(read) EXCEPT !.command = command])

(***************************************************************************)
(* Requests, and the entries each one leaves in the file.                  *)
(***************************************************************************)
Requests(limits) ==
    [kind : {"push", "update"}, command : Commands, limit : limits, duplicates : BOOLEAN]
    \cup [kind : {"remove last", "clear", "load"}, limit : limits, duplicates : BOOLEAN]

\* push and update report whether they succeeded
Answers(request) == request.kind \in {"push", "update"}

Effect(request, list) ==
    CASE request.kind = "push" ->
            Pushed(list, request.command, request.limit, request.duplicates)
      [] request.kind = "update" ->
            Updated(list, request.command, request.limit, request.duplicates)
      [] request.kind = "remove last" -> LastRemoved(list, request.limit)
      [] request.kind = "clear" -> <<>>
      [] request.kind = "load" -> Collected(list, request.limit, request.duplicates)
=============================================================================
