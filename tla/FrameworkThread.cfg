SPECIFICATION FairSpec
CONSTANTS
  a = a
  b = b
  s = s
  q = q
  Tasks = {a, b, s, q}
  StopSoonTask = StopSoonTask
  Stoppers = {s}
  Quitters = {q}
  MaxRuns = 3
INVARIANTS LoopUsable DrainedByStop
PROPERTIES ResetByStop StopEnds
CHECK_DEADLOCK FALSE
