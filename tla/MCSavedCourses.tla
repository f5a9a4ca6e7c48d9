--------------------------- MODULE MCSavedCourses ---------------------------
(***************************************************************************)
(* Instances of SavedCourses for TLC.                                      *)
(***************************************************************************)
EXTENDS SavedCourses, TLC

CONSTANTS s1, s2, c1, c2, q1, q2

Symmetric == Permutations(Students) \cup Permutations(Courses) \cup
             Permutations(SaveRequests)
=============================================================================
