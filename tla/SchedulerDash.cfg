\* SchedulerDash
SPECIFICATION Spec
CONSTANTS
  c1 = c1
  i1 = i1
  o1 = o1
  o2 = o2
  Job = {i1, o1, o2}
  Kind <- MCKind
  ByTool = {o2}
  Far = {}
  Broken = {}
  Conditional = {}
  MaxOps = 1
  MaxFires <- MCTwoTicks
  MaxFaults = 1
INVARIANT TypeOK
INVARIANT IntervalNeverOverlaps
INVARIANT ShotsAreBounded
PROPERTY ReconcileRepairs
\* The system may stop: bounds are reached and nobody changes a job any more.
CHECK_DEADLOCK FALSE
