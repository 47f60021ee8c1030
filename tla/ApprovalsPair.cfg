\* ApprovalsPair
SPECIFICATION Spec
CONSTANTS
  t1 = t1
  t2 = t2
  c1 = c1
  u1 = u1
  s1 = s1
  s2 = s2
  Sweep = sweep
  Approval = {t1, t2}
  People = {p1}
  Dashboard = {}
  Subject = {s1}
  MaxFaults = 1
  Kind <- MCKind
  SubjectOf <- MCSubjectOf
PROPERTY ImplementsContract
\* The system may stop: every request may be handled and nobody asks again.
CHECK_DEADLOCK FALSE
