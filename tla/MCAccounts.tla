----------------------------- MODULE MCAccounts -----------------------------
(* Root, another, and one without a password; two named rights and one that     *)
(* only `all` gives; two sessions.                                          *)
EXTENDS Accounts, TLC
Sessions == Permutations(Procs)
=============================================================================
