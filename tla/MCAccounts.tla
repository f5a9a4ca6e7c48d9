----------------------------- MODULE MCAccounts -----------------------------
(***************************************************************************)
(* Accounts on two requests and two passwords.                             *)
(***************************************************************************)
EXTENDS Accounts, TLC

CONSTANTS q1, q2, pw1, pw2

Symmetric == Permutations(Calls) \cup Permutations(Passwords)
=============================================================================
