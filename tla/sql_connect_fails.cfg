\* The database cannot be reached when the server starts.
SPECIFICATION SqlFairSpec
CONSTANTS
  Workers = {w1, w2}
  Callers = {c1}
  Nobody = Nobody
  Size = 2
  MinThreads = 1
  StopTokens = 100
  MayFail = TRUE
  MayClose = FALSE
  MaxTasks = 1
  Conns = {d1, d2}
PROPERTY EventuallyCalled
CHECK_DEADLOCK FALSE
