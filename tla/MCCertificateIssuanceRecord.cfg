SPECIFICATION Spec
CONSTANTS
  k1 = k1
  k2 = k2
  p1 = p1
  p2 = p2
  Certificates = {k1, k2}
  Passes = {p1, p2}
  MaxPolls = 1
  MaxOthers = 1
  MaxFaults = 0
INVARIANT
  MintIsRecorded
