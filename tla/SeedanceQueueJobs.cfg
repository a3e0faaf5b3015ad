SPECIFICATION Spec
CONSTANTS
  Tasks = {t1, t2}
  PollLimit = 2
  Retryable = {t1}
  Deletable = {}
  Refreshable = {t1}
  MaxJobs = 4
  MaxRestarts = 1
  SlowSubmissions = FALSE
  Nobody = Nobody
INVARIANTS JobsAreAskedFor
CHECK_DEADLOCK FALSE
