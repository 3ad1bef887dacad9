SPECIFICATION FairSpec
CONSTANTS
  t1 = t1
  t2 = t2
  t3 = t3
  None = None
  Threads = {t1, t2, t3}
  Events = {1, 2}
  Manual = {2}
  Initially = {}
  Arrays <- MCArrays
  MaxCalls = 4
INVARIANTS NoCircularWait NoDeadWaiter
PROPERTIES ImplementsEventService ReleasedReturns
CHECK_DEADLOCK FALSE
