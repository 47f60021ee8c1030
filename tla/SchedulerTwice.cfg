\* SchedulerTwice
SPECIFICATION Spec
CONSTANTS
  c1 = c1
  i1 = i1
  o1 = o1
  o2 = o2
  Job = {o1}
  Kind <- MCKind
  ByTool = {o1}
  Far = {}
  Broken = {}
  Conditional = {}
  MaxOps = 0
  MaxFires <- MCOneTick
  MaxFaults = 0
INVARIANT OnceAtMostOnce
\* The system may stop: bounds are reached and nobody changes a job any more.
CHECK_DEADLOCK FALSE
