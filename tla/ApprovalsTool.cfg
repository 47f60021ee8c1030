\* ApprovalsTool
SPECIFICATION FairSpec
CONSTANTS
  t1 = t1
  t2 = t2
  c1 = c1
  u1 = u1
  s1 = s1
  s2 = s2
  Sweep = sweep
  Approval = {t1}
  People = {p1, p2}
  Dashboard = {}
  Subject = {s1}
  MaxFaults = 1
  Kind <- MCKind
  SubjectOf <- MCSubjectOf
INVARIANT TypeOK
INVARIANT AtMostOnce
INVARIANT SanctionedRun
INVARIANT CardTruth
INVARIANT AlertIsTrue
PROPERTY ApprovedToolRuns
\* The system may stop: every request may be handled and nobody asks again.
CHECK_DEADLOCK FALSE
