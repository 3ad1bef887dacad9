SPECIFICATION Spec
CONSTANTS
  x = x
  X = X
  Processes = {p, q}
  Names = {x, X}
  Lower <- MCLower
  Passwords = {good, bad}
  Imported = x
  Secret = good
  NoName = NoName
  Absent = Absent
  CheckSingleton = TRUE
INVARIANTS ButtonsMatchStatus CallbacksFindTheirForm OnlyRegisteredLogIn WindowlessIsEnding
PROPERTIES LoggedInIsTaken LoginEnds RegisteredGetsIn
CHECK_DEADLOCK FALSE
