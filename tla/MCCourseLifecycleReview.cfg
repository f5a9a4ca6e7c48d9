SPECIFICATION Spec
CONSTANTS
  c1 = c1
  c2 = c2
  t1 = t1
  t2 = t2
  r1 = r1
  r2 = r2
  None = None
  Admin = Admin
  Courses = {c1}
  Tutors = {t1}
  Owner <- AllOfT1
  Requests = {r1, r2}
  MaxRevisions = 2
INVARIANT
  OfferedCurriculumVetted
