SPECIFICATION Spec
CONSTANTS
  a = a
  b = b
  c = c
  d = d
  Tasks = {a, c, d}
  NoTask = NoTask
  Delay <- MCDelay
  Openers = {"handler"}
  Nesting = {}
  Quitting = {}
  MaxModals = 2
  MaxTime = 3
  MaxApp = 1
INVARIANTS ModalLoopHasTimer
CHECK_DEADLOCK FALSE
