SPECIFICATION FairSpec
CONSTANTS
  a = a
  b = b
  c = c
  d = d
  e = e
  Tasks = {a, b, c}
  NoTask = NoTask
  Posters = {p1, p2}
  Nobody = Nobody
  Nestable <- MCNestable
  Delay <- MCDelay
  May <- MCMay
  MaxDepth = 2
  MaxTime = 2
  MaxRounds = 1
PROPERTIES QuitDrains EventuallyRun
CHECK_DEADLOCK FALSE
