\* Three workers, two callers, four tasks; calls may fail, clos at any moment.
SPECIFICATION FairSpec
CONSTANTS
  Workers = {w1, w2, w3}
  Callers = {c1, c2}
  Nobody = Nobody
  Size = 2
  MinThreads = 3
  StopTokens = 4
  MayFail = TRUE
  MayClose = TRUE
  MaxTasks = 4
INVARIANTS TypeOK TokensMatch FetchersHaveTasks
PROPERTIES ImplementsBoard EventuallyRun EventuallyStopped
CHECK_DEADLOCK FALSE
