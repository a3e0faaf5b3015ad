SPECIFICATION FairSpec
CONSTANTS
  Tasks = {t1, t2}
  PollLimit = 2
  Retryable = {}
  Deletable = {t1, t2}
  Refreshable = {}
  MaxJobs = 2
  MaxRestarts = 1
  SlowSubmissions = FALSE
  Nobody = Nobody
INVARIANTS OneActiveTask
PROPERTIES DeletedStaysDeleted ImplementsTakingTurns TasksSettle
CHECK_DEADLOCK FALSE
