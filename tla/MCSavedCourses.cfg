SPECIFICATION SavedFairSpec
CONSTANTS
  s1 = s1
  s2 = s2
  c1 = c1
  c2 = c2
  q1 = q1
  q2 = q2
  None = None
  Students = {s1}
  Courses = {c1}
  SaveRequests = {q1, q2}
  MaxSaves = 3
  MaxFaults = 1
INVARIANTS
  WishlistConserved
  RewardedOnceForEnrolment
PROPERTIES
  AnnouncedIsRewarded
