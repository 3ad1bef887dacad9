SPECIFICATION Spec
CONSTANTS
  ui = ui
  misc = misc
  db = db
  twin = twin
  a = a
  b = b
  again = again
  Main = ui
  Workers = {misc, db, twin}
  Nobody = Nobody
  Ids = {0, 1, 2}
  Id <- MCId
  Plain = {b}
  Awaits = {a}
  Repeats = {again}
  Times <- MCTimes
PROPERTIES LookupExcludesChange
CHECK_DEADLOCK FALSE
