\* ApprovalsWait
SPECIFICATION FairSpec
CONSTANTS
  t1 = t1
  t2 = t2
  c1 = c1
  u1 = u1
  s1 = s1
  s2 = s2
  Sweep = sweep
  Approval = {c1}
  People = {p1}
  Dashboard = {d1}
  Subject = {s2}
  MaxFaults = 2
  Kind <- MCKind
  SubjectOf <- MCSubjectOf
INVARIANT NoteIsTrue
INVARIANT NoBareApproval
INVARIANT OutcomeIsVerdict
PROPERTY LostCardsAreNoted
PROPERTY EveryRowIsDecided
PROPERTY TimelyWaiterReturns
\* The system may stop: every request may be handled and nobody asks again.
CHECK_DEADLOCK FALSE
