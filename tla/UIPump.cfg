SPECIFICATION FairSpec
CONSTANTS
  a = a
  b = b
  c = c
  d = d
  Tasks = {a, b, c}
  NoTask = NoTask
  Delay <- MCDelay
  Openers = {"start", "handler", a, c}
  Nesting = {a}
  Quitting = {b}
  MaxModals = 2
  MaxTime = 2
  MaxApp = 1
INVARIANTS TypeOK OneWorkMessage NoSleepOnWork
PROPERTIES QuitUnwinds EventuallyStarted ImplementsTaskService
CHECK_DEADLOCK FALSE
