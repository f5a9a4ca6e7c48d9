SPECIFICATION AccountsSpec
CONSTANTS
  q1 = q1
  q2 = q2
  pw1 = pw1
  pw2 = pw2
  None = None
  Calls = {q1, q2}
  Passwords = {pw1, pw2}
  MaxLoginAttempts = 2
  MaxVerificationAttempts = 2
  MaxCalls = 5
  MaxFaults = 1
  NoTutor = None
  TutorCalls = {q1, q2}
  TutorPasswords = {pw1, pw2}
  MaxTutorCalls = 5
  MaxTutorFaults = 1
  MaxDecisions = 2
SYMMETRY Symmetric
INVARIANTS
  AccountsTypeOK
  RotationForksByRace
  InactiveGetsNoSession
PROPERTIES
  SessionImplementsFamilies
  TutorImplementsFamilies
CHECK_DEADLOCK FALSE
