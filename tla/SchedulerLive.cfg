\* SchedulerLive
SPECIFICATION FairSpec
CONSTANTS
  c1 = c1
  i1 = i1
  o1 = o1
  o2 = o2
  Job = {c1, o1}
  Kind <- MCKind
  ByTool = {c1}
  Far = {}
  Broken = {}
  Conditional = {c1}
  MaxOps = 2
  MaxFires <- MCOneTick
  MaxFaults = 1
PROPERTY MapsEventuallyInLine
PROPERTY ArmedJobRuns
\* The system may stop: bounds are reached and nobody changes a job any more.
CHECK_DEADLOCK FALSE
