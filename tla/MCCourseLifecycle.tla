------------------------- MODULE MCCourseLifecycle -------------------------
(***************************************************************************)
(* Instances of CourseLifecycle for TLC.                                   *)
(***************************************************************************)
EXTENDS CourseLifecycle, TLC

CONSTANTS c1, c2, t1, t2, r1, r2

AllOfT1 == [c \in Courses |-> t1]

Symmetric == Permutations(Requests)
=============================================================================
