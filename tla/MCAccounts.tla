----------------------------- MODULE MCAccounts ------------------------------
(***************************************************************************)
(* Small instances of Accounts: two users, a limit of one custom repo,     *)
(* two overlapping requests.  Ids are drawn in the order of their sets, so *)
(* only requests and names are symmetric.                                  *)
(***************************************************************************)
EXTENDS Accounts, TLC

\* Every two kinds that touch the same tables meet in one of these (a log-in reads what
\* either sign-up writes); the limit needs a default repo and three custom ones to be broken,
\* the rotation of tokens one, its two successors and a third.
Mix(n, kinds) == [repos |-> n, kinds |-> kinds]

MCMixes ==
    {Mix(2, {"signup", "login", "refresh"}),
     Mix(2, {"signup", "signupPage"}),
     Mix(4, {"signupPage", "create", "rename", "delete"}),
     Mix(3, {"signupPage", "create", "delete", "share"}),
     Mix(3, {"signupPage", "create", "delete", "sharePage", "unshare"}),
     Mix(2, {"signupPage", "share", "sharePage"}),
     Mix(2, {"signupPage", "share", "unshare"})}

Symmetry == Permutations(Requests) \cup Permutations(Names)
=============================================================================
