SPECIFICATION FairSpec
CONSTANTS
  r1 = r1
  r2 = r2
  Runners = {r1, r2}
  MaxDialogs = 4
INVARIANTS DialogOutlivesThread
PROPERTIES CancelAllEnds
CHECK_DEADLOCK FALSE
