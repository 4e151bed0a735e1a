----------------------------- MODULE MCAccounts -----------------------------
(***************************************************************************)
(* Accounts with one seeded user, another that may be registered, and one  *)
(* branch; two wrong passwords lock an account.                            *)
(***************************************************************************)
EXTENDS Accounts, TLC

CONSTANTS u1, u2, b1, p1, p2, s1, s2

ListsMC == {<<u1>>, <<u1, u2>>, <<>>}

Symmetry == Permutations(Sessions) \cup Permutations(Passwords)
=============================================================================
