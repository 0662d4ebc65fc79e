\* Two workers and connections, three statements; calls may fail.
SPECIFICATION SqlFairSpec
CONSTANTS
  Workers = {w1, w2}
  Callers = {c1}
  Nobody = Nobody
  Size = 2
  MinThreads = 2
  StopTokens = 100
  MayFail = TRUE
  MayClose = FALSE
  MaxTasks = 3
  Conns = {d1, d2}
INVARIANTS SqlTypeOK AllocNeverSpins ResultIsOwn
PROPERTY AnsweredOnceUp
CHECK_DEADLOCK FALSE
