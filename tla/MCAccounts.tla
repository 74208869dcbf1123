----------------------------- MODULE MCAccounts -----------------------------
(***************************************************************************)
(* Instances of Accounts for TLC.                                          *)
(***************************************************************************)
EXTENDS Accounts, TLC

CONSTANTS a1, a2, u1, u2, c1, c2

Symmetry == Permutations(Caller) \cup Permutations(Account) \cup Permutations(Username)
=============================================================================
