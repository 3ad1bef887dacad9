SPECIFICATION Spec
CONSTANTS
  a = a
  b = b
  c = c
  d = d
  e = e
  Tasks = {a, c, d, e}
  NoTask = NoTask
  Posters = {p1, p2}
  Nobody = Nobody
  Nestable <- MCNestable
  Delay <- MCDelay
  May <- MCMay
  MaxDepth = 2
  MaxTime = 3
  MaxRounds = 2
SYMMETRY MCPosters
INVARIANTS Conservation NoLostWakeup NestingRespected NoPostIntoDeadLoop
PROPERTIES ImplementsTaskService DelayedInOrder
CHECK_DEADLOCK FALSE
