---------------------------- MODULE RedirectionsMC ----------------------------
(***************************************************************************)
(* Redirections on a small instance: one file that opens and one that does *)
(* not, the descriptor the shell's terminal handle starts with, and one    *)
(* that only the digits of a duplication can name.                         *)
(***************************************************************************)
EXTENDS Redirections

File(n) == <<"file", n>>
Missing == {File(0)}

ToFile(x, n) == [type |-> "file", fd |-> x, from |-> NoFd, file |-> File(n)]
Copy(x, y) == [type |-> "duplicate", fd |-> x, from |-> y, file |-> Here]
Shut(x) == [type |-> "close", fd |-> x, from |-> NoFd, file |-> Here]
Both(n) == [type |-> "both", fd |-> Stdout, from |-> NoFd, file |-> File(n)]
HereDoc == [type |-> "here", fd |-> Stdin, from |-> NoFd, file |-> Here]

Ordinary == {ToFile(3, 1), ToFile(4, 0), Copy(4, Stdout), Copy(Stdout, 4), Shut(4), HereDoc}
AtTop == {Copy(10, Stdout), Copy(Stdout, 10)}
Standard == {ToFile(Stdin, 1), Both(1)}
Extra == {ToFile(3, 1), ToFile(4, 1)}
None == {}
=============================================================================
