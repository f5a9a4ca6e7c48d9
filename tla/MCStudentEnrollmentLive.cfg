SPECIFICATION FairSpec
CONSTANTS
  s1 = s1
  s2 = s2
  c1 = c1
  c2 = c2
  r1 = r1
  r2 = r2
  i1 = i1
  i2 = i2
  i3 = i3
  None = None
  Students = {s1}
  Courses = {c1, c2}
  Requests = {r1}
  MaxDisturbances = 3
  ItemIds = {i1, i2}
PROPERTIES
  RequestsAnswered
