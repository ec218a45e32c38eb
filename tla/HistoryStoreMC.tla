--------------------------- MODULE HistoryStoreMC ---------------------------
(* Small shared histories for TLC. *)
EXTENDS HistoryStore

CONSTANTS s1, s2, ls, cd

Symmetric == Permutations({s1, s2}) \cup Permutations({ls, cd})

\* lists as a session allowing duplicates may have left them
ShortLists == {<<>>} \cup [1..1 -> Entries]
DuplicateLists == [1..2 -> [command : Commands, frequency : {1}]]
=============================================================================
