SPECIFICATION CartSpec
CONSTANTS
  s1 = s1
  s2 = s2
  c1 = c1
  c2 = c2
  r1 = r1
  q1 = q1
  q2 = q2
  i1 = i1
  i2 = i2
  None = None
  Students = {s1, s2}
  Courses = {c1}
  Requests = {r1}
  CartRequests = {q1, q2}
  MaxDisturbances = 1
  MaxMishaps = 1
  ItemIds = {i1, i2}
SYMMETRY Symmetric
INVARIANTS
  CartCountCoversItems
PROPERTIES
  CartServiceFits
