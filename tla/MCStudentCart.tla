--------------------------- MODULE MCStudentCart ---------------------------
(***************************************************************************)
(* Instances of StudentCart for TLC.                                       *)
(***************************************************************************)
EXTENDS StudentCart, TLC

CONSTANTS s1, s2, c1, c2, r1, q1, q2, i1, i2

Symmetric ==
  Permutations(Students) \cup Permutations(Courses) \cup
  Permutations(CartRequests) \cup Permutations(ItemIds)
=============================================================================
