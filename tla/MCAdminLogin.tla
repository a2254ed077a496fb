---------------------------- MODULE MCAdminLogin ----------------------------
(***************************************************************************)
(* Three requests at once, two passwords and a session; two wrong guesses  *)
(* lock, so two more can be on their way, and lock again, when they do.    *)
(***************************************************************************)
EXTENDS AdminLogin, TLC

CONSTANTS c1, c2, c3, secret, other

MCClients == {c1, c2, c3}
MCPasswords == {secret, other}

Alike == Permutations(MCClients) \cup Permutations(MCPasswords)
=============================================================================
