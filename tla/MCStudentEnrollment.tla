------------------------ MODULE MCStudentEnrollment ------------------------
(***************************************************************************)
(* Instances of StudentEnrollment for TLC.                                 *)
(***************************************************************************)
EXTENDS StudentEnrollment, TLC

CONSTANTS s1, s2, c1, c2, r1, r2, i1, i2, i3

Symmetric ==
  Permutations(Students) \cup Permutations(Courses) \cup
  Permutations(Requests) \cup Permutations(ItemIds)
=============================================================================
