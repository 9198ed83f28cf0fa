----------------------------- MODULE MCAccounts -----------------------------
(* Accounts with two browsers, and admins and viewers. *)
EXTENDS Accounts, TLC

Symmetry == Permutations(Browser) \cup Permutations(Hash)
MCGrantable == {"admin", "viewer"}
=============================================================================
