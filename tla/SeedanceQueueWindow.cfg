SPECIFICATION FairSpec
CONSTANTS
  Tasks = {t1, t2, t3}
  PollLimit = 2
  Retryable = {}
  Deletable = {}
  Refreshable = {}
  MaxJobs = 1
  MaxRestarts = 0
  SlowSubmissions = FALSE
  Nobody = Nobody
PROPERTIES QueuedTaskIsSubmitted
CHECK_DEADLOCK FALSE
