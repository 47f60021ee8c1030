\* ApprovalsHang
SPECIFICATION FairSpec
CONSTANTS
  t1 = t1
  t2 = t2
  c1 = c1
  u1 = u1
  s1 = s1
  s2 = s2
  Sweep = sweep
  Approval = {u1}
  People = {p1}
  Dashboard = {}
  Subject = {s2}
  MaxFaults = 0
  Kind <- MCKind
  SubjectOf <- MCSubjectOf
PROPERTY DecisionWakesWaiter
\* The system may stop: every request may be handled and nobody asks again.
CHECK_DEADLOCK FALSE
