---------------------------- MODULE ShellPoolMC ----------------------------
(***************************************************************************)
(* ShellPool on a small instance: two workers; one requested command that  *)
(* may discover itself in another spelling and two new ones; startup files *)
(* that trapped TERM and EXIT, so that one command more can be an exit in  *)
(* a trap, the removal of the trap, or another trap.                       *)
(***************************************************************************)
EXTENDS ShellPool

LowerCase(t) == IF t = "A" THEN "a" ELSE t
Found == {[found |-> {}, generated |-> FALSE], [found |-> {"A", "b", "c"}, generated |-> TRUE]}
OneCommand == <<"a">>
Trapped == {{"TERM", "EXIT"}}
=============================================================================
