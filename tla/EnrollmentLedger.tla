-------------------------- MODULE EnrollmentLedger --------------------------
(***************************************************************************)
(* What enrolment promises the rest of the platform, with no request, cart *)
(* or catalogue in sight.  For each student and course the enrolment goes  *)
(* through four stages in one direction: it is stored, then counted in the *)
(* course's total, then announced as STUDENT_ENROLLED.  A failure may stop *)
(* it at any stage; nothing takes it back or repeats a stage.              *)
(***************************************************************************)
EXTENDS Naturals

CONSTANTS Students, Courses

VARIABLES
  stage,  \* how far the enrolment of each student in each course has come
  tally   \* the total each course shows

Pairs == Students \X Courses

Stages == {"none", "stored", "counted", "announced"}

LedgerTypeOK ==
  /\ stage \in [Pairs -> Stages]
  /\ tally \in [Courses -> Nat]

Init ==
  /\ stage = [p \in Pairs |-> "none"]
  /\ tally = [c \in Courses |-> 0]

Advance(s, c, from, to) ==
  /\ stage[<<s, c>>] = from
  /\ stage' = [stage EXCEPT ![<<s, c>>] = to]

Store(s, c) == Advance(s, c, "none", "stored") /\ UNCHANGED tally

\* A free enrolment is announced in the same stretch of code that counts it.
Count(s, c) ==
  /\ \/ Advance(s, c, "stored", "counted")
     \/ Advance(s, c, "stored", "announced")
  /\ tally' = [tally EXCEPT ![c] = @ + 1]

Tell(s, c) == Advance(s, c, "counted", "announced") /\ UNCHANGED tally

Next ==
  \E s \in Students, c \in Courses : Store(s, c) \/ Count(s, c) \/ Tell(s, c)

Spec == Init /\ [][Next]_<<stage, tally>>
=============================================================================
