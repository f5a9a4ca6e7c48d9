-------------------------- MODULE SessionFamilies --------------------------
(***************************************************************************)
(* What rotating refresh tokens promise, with no token in sight.  A login  *)
(* opens a family of tokens.  A branch is a way the family can go on: a    *)
(* token that may still be exchanged, or an exchange in progress.  Two     *)
(* exchanges of one token fork the family; logouts, detected reuse, failed *)
(* requests and password resets cut branches.  A family that has lost its  *)
(* last branch has ended: whatever tokens of it are still around, nobody   *)
(* gets a session from them again.                                         *)
(***************************************************************************)
EXTENDS Naturals

CONSTANT Families

VARIABLES
  opened,   \* families begun by a login or a registration
  branches  \* ways each family can go on

familyVars == <<opened, branches>>

FamiliesInit ==
  /\ opened = {}
  /\ branches = [f \in Families |-> 0]

Open(f) ==
  /\ f \notin opened
  /\ opened' = opened \cup {f}
  /\ branches' = [branches EXCEPT ![f] = 1]

Fork(f) ==
  /\ branches[f] > 0
  /\ branches' = [branches EXCEPT ![f] = @ + 1]
  /\ UNCHANGED opened

\* One cut may reach several families: a password reset ends them all.
Cut ==
  /\ branches' \in [Families -> Nat]
  /\ \A f \in Families : branches'[f] <= branches[f]
  /\ UNCHANGED opened

FamiliesNext == Cut \/ \E f \in Families : Open(f) \/ Fork(f)

FamiliesSpec == FamiliesInit /\ [][FamiliesNext]_familyVars
=============================================================================
