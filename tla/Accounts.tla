------------------------------ MODULE Accounts ------------------------------
(***************************************************************************)
(* One student account, or one tutor account.  Each service is modelled    *)
(* with the collections its own schemas describe (README, section 1, says  *)
(* what the application's one connection makes of that), so the two have   *)
(* no state in common here, and a behaviour runs one of them and leaves    *)
(* the other alone.                                                        *)
(***************************************************************************)
EXTENDS StudentSession, TutorSession

VARIABLE role  \* the account that is at work

AccountsInit == SessionInit /\ TutorInit /\ role \in {"student", "tutor"}

AccountsNext ==
  /\ \/ role = "student" /\ SessionNext /\ UNCHANGED tutorVars
     \/ role = "tutor" /\ TutorNext /\ UNCHANGED sessionVars
  /\ UNCHANGED role

AccountsSpec == AccountsInit /\ [][AccountsNext]_<<sessionVars, tutorVars, role>>

\* The collections and the requests in flight have their types.
AccountsTypeOK == SessionTypeOK /\ TutorTypeOK
=============================================================================
